---- MODULE Spec2Model ----
(***************************************************************************)
(* EFW2C (SSA Pub 42-014) W-2c correction file generator.                  *)
(*                                                                         *)
(* The model follows internal/adapters/efw2c/generator.go (the record      *)
(* assembler, the fixed record buffer, the field formatters) and the       *)
(* efw2c/spec package (the per-year field tables).  A record is a sequence *)
(* of 1024 one-character strings; a Go string is a sequence of             *)
(* one-character strings; an int64 is a sign and a decimal magnitude, so   *)
(* that amounts beyond eleven digits can be written down.                  *)
(***************************************************************************)
EXTENDS Integers, Sequences, FiniteSets, TLC

\* spec.RecordLen
RecordLen == 1024

\* spec.DefaultYear
DefaultYear == 2024

\* Largest number of employees in a submission of the model.
MaxEmployees == 2

\* The longest employee list of the further calls (EdgeCalls).
MaxEdgeEmployees == 1

\* The longest records slice handed to the write loop taken by itself.
MaxWriteRecords == 3

(***************************************************************************)
(* Field table catalog (package spec).  Required and Description carry no  *)
(* behaviour and are left out of a Field.                                  *)
(***************************************************************************)

baseRCA ==
  << [Name |-> "RecordIdentifier", Start |-> 1, End |-> 3, Type |-> "Fixed"],
     [Name |-> "SubmitterEIN", Start |-> 4, End |-> 12, Type |-> "Numeric"],
     [Name |-> "BSOUID", Start |-> 13, End |-> 20, Type |-> "Alpha"],
     [Name |-> "SoftwareVendorCode", Start |-> 21, End |-> 24, Type |-> "Numeric"],
     [Name |-> "Blank25", Start |-> 25, End |-> 29, Type |-> "Blank"],
     [Name |-> "SoftwareCode", Start |-> 30, End |-> 31, Type |-> "Numeric"],
     [Name |-> "CompanyName", Start |-> 32, End |-> 88, Type |-> "Alpha"],
     [Name |-> "LocationAddress", Start |-> 89, End |-> 110, Type |-> "Alpha"],
     [Name |-> "DeliveryAddress", Start |-> 111, End |-> 132, Type |-> "Alpha"],
     [Name |-> "City", Start |-> 133, End |-> 154, Type |-> "Alpha"],
     [Name |-> "StateAbbrev", Start |-> 155, End |-> 156, Type |-> "Alpha"],
     [Name |-> "ZIPCode", Start |-> 157, End |-> 161, Type |-> "Numeric"],
     [Name |-> "ZIPExtension", Start |-> 162, End |-> 165, Type |-> "Numeric"],
     [Name |-> "Blank166", Start |-> 166, End |-> 171, Type |-> "Blank"],
     [Name |-> "ForeignStateProvince", Start |-> 172, End |-> 194, Type |-> "Alpha"],
     [Name |-> "ForeignPostalCode", Start |-> 195, End |-> 209, Type |-> "Alpha"],
     [Name |-> "CountryCode", Start |-> 210, End |-> 211, Type |-> "Alpha"],
     [Name |-> "ContactName", Start |-> 212, End |-> 238, Type |-> "Alpha"],
     [Name |-> "ContactPhone", Start |-> 239, End |-> 253, Type |-> "Numeric"],
     [Name |-> "PhoneExtension", Start |-> 254, End |-> 258, Type |-> "Numeric"],
     [Name |-> "Blank259", Start |-> 259, End |-> 261, Type |-> "Blank"],
     [Name |-> "ContactEmail", Start |-> 262, End |-> 301, Type |-> "Alpha"],
     [Name |-> "Blank302", Start |-> 302, End |-> 304, Type |-> "Blank"],
     [Name |-> "ContactFax", Start |-> 305, End |-> 314, Type |-> "Numeric"],
     [Name |-> "Blank315", Start |-> 315, End |-> 315, Type |-> "Blank"],
     [Name |-> "PreparerCode", Start |-> 316, End |-> 316, Type |-> "Alpha"],
     [Name |-> "ResubIndicator", Start |-> 317, End |-> 317, Type |-> "Alpha"],
     [Name |-> "ResubWFID", Start |-> 318, End |-> 323, Type |-> "Alpha"],
     [Name |-> "Blank324", Start |-> 324, End |-> 1024, Type |-> "Blank"] >>

baseRCE ==
  << [Name |-> "RecordIdentifier", Start |-> 1, End |-> 3, Type |-> "Fixed"],
     [Name |-> "TaxYear", Start |-> 4, End |-> 7, Type |-> "Alpha"],
     [Name |-> "OrigReportedEIN", Start |-> 8, End |-> 16, Type |-> "Numeric"],
     [Name |-> "EmployerEIN", Start |-> 17, End |-> 25, Type |-> "Numeric"],
     [Name |-> "AgentIndicatorCode", Start |-> 26, End |-> 26, Type |-> "Alpha"],
     [Name |-> "AgentForEIN", Start |-> 27, End |-> 35, Type |-> "Numeric"],
     [Name |-> "OrigEstablishmentNum", Start |-> 36, End |-> 39, Type |-> "Alpha"],
     [Name |-> "CorrectEstablishmentNum", Start |-> 40, End |-> 43, Type |-> "Alpha"],
     [Name |-> "EmployerName", Start |-> 44, End |-> 100, Type |-> "Alpha"],
     [Name |-> "LocationAddress", Start |-> 101, End |-> 122, Type |-> "Alpha"],
     [Name |-> "DeliveryAddress", Start |-> 123, End |-> 144, Type |-> "Alpha"],
     [Name |-> "City", Start |-> 145, End |-> 166, Type |-> "Alpha"],
     [Name |-> "StateAbbrev", Start |-> 167, End |-> 168, Type |-> "Alpha"],
     [Name |-> "ZIPCode", Start |-> 169, End |-> 173, Type |-> "Numeric"],
     [Name |-> "ZIPExtension", Start |-> 174, End |-> 177, Type |-> "Numeric"],
     [Name |-> "Blank178", Start |-> 178, End |-> 181, Type |-> "Blank"],
     [Name |-> "ForeignStateProvince", Start |-> 182, End |-> 204, Type |-> "Alpha"],
     [Name |-> "ForeignPostalCode", Start |-> 205, End |-> 219, Type |-> "Alpha"],
     [Name |-> "CountryCode", Start |-> 220, End |-> 221, Type |-> "Alpha"],
     [Name |-> "OrigEmploymentCode", Start |-> 222, End |-> 222, Type |-> "Alpha"],
     [Name |-> "CorrectEmploymentCode", Start |-> 223, End |-> 223, Type |-> "Alpha"],
     [Name |-> "OrigThirdPartySick", Start |-> 224, End |-> 224, Type |-> "Alpha"],
     [Name |-> "CorrectThirdPartySick", Start |-> 225, End |-> 225, Type |-> "Alpha"],
     [Name |-> "Blank226", Start |-> 226, End |-> 226, Type |-> "Blank"],
     [Name |-> "KindOfEmployer", Start |-> 227, End |-> 227, Type |-> "Alpha"],
     [Name |-> "ContactName", Start |-> 228, End |-> 254, Type |-> "Alpha"],
     [Name |-> "ContactPhone", Start |-> 255, End |-> 269, Type |-> "Numeric"],
     [Name |-> "PhoneExtension", Start |-> 270, End |-> 274, Type |-> "Numeric"],
     [Name |-> "ContactFax", Start |-> 275, End |-> 284, Type |-> "Numeric"],
     [Name |-> "ContactEmail", Start |-> 285, End |-> 324, Type |-> "Alpha"],
     [Name |-> "Blank325", Start |-> 325, End |-> 1024, Type |-> "Blank"] >>

baseRCW ==
  << [Name |-> "RecordIdentifier", Start |-> 1, End |-> 3, Type |-> "Fixed"],
     [Name |-> "OrigSSN", Start |-> 4, End |-> 12, Type |-> "Numeric"],
     [Name |-> "CorrectSSN", Start |-> 13, End |-> 21, Type |-> "Numeric"],
     [Name |-> "OrigFirstName", Start |-> 22, End |-> 36, Type |-> "Alpha"],
     [Name |-> "OrigMiddleName", Start |-> 37, End |-> 51, Type |-> "Alpha"],
     [Name |-> "OrigLastName", Start |-> 52, End |-> 71, Type |-> "Alpha"],
     [Name |-> "CorrectFirstName", Start |-> 72, End |-> 86, Type |-> "Alpha"],
     [Name |-> "CorrectMiddleName", Start |-> 87, End |-> 101, Type |-> "Alpha"],
     [Name |-> "CorrectLastName", Start |-> 102, End |-> 121, Type |-> "Alpha"],
     [Name |-> "LocationAddress", Start |-> 122, End |-> 143, Type |-> "Alpha"],
     [Name |-> "DeliveryAddress", Start |-> 144, End |-> 165, Type |-> "Alpha"],
     [Name |-> "City", Start |-> 166, End |-> 187, Type |-> "Alpha"],
     [Name |-> "StateAbbrev", Start |-> 188, End |-> 189, Type |-> "Alpha"],
     [Name |-> "ZIPCode", Start |-> 190, End |-> 194, Type |-> "Numeric"],
     [Name |-> "ZIPExtension", Start |-> 195, End |-> 198, Type |-> "Numeric"],
     [Name |-> "Blank199", Start |-> 199, End |-> 203, Type |-> "Blank"],
     [Name |-> "ForeignStateProvince", Start |-> 204, End |-> 226, Type |-> "Alpha"],
     [Name |-> "ForeignPostalCode", Start |-> 227, End |-> 241, Type |-> "Alpha"],
     [Name |-> "CountryCode", Start |-> 242, End |-> 243, Type |-> "Alpha"],
     [Name |-> "OrigWagesTipsOther", Start |-> 244, End |-> 254, Type |-> "Money11"],
     [Name |-> "CorrectWagesTipsOther", Start |-> 255, End |-> 265, Type |-> "Money11"],
     [Name |-> "OrigFedIncomeTax", Start |-> 266, End |-> 276, Type |-> "Money11"],
     [Name |-> "CorrectFedIncomeTax", Start |-> 277, End |-> 287, Type |-> "Money11"],
     [Name |-> "OrigSSWages", Start |-> 288, End |-> 298, Type |-> "Money11"],
     [Name |-> "CorrectSSWages", Start |-> 299, End |-> 309, Type |-> "Money11"],
     [Name |-> "OrigSSTax", Start |-> 310, End |-> 320, Type |-> "Money11"],
     [Name |-> "CorrectSSTax", Start |-> 321, End |-> 331, Type |-> "Money11"],
     [Name |-> "OrigMedicareWages", Start |-> 332, End |-> 342, Type |-> "Money11"],
     [Name |-> "CorrectMedicareWages", Start |-> 343, End |-> 353, Type |-> "Money11"],
     [Name |-> "OrigMedicareTax", Start |-> 354, End |-> 364, Type |-> "Money11"],
     [Name |-> "CorrectMedicareTax", Start |-> 365, End |-> 375, Type |-> "Money11"],
     [Name |-> "OrigSSTips", Start |-> 376, End |-> 386, Type |-> "Money11"],
     [Name |-> "CorrectSSTips", Start |-> 387, End |-> 397, Type |-> "Money11"],
     [Name |-> "Blank398", Start |-> 398, End |-> 419, Type |-> "Blank"],
     [Name |-> "OrigDependentCare", Start |-> 420, End |-> 430, Type |-> "Money11"],
     [Name |-> "CorrectDependentCare", Start |-> 431, End |-> 441, Type |-> "Money11"],
     [Name |-> "OrigCode401k", Start |-> 442, End |-> 452, Type |-> "Money11"],
     [Name |-> "CorrectCode401k", Start |-> 453, End |-> 463, Type |-> "Money11"],
     [Name |-> "OrigCode403b", Start |-> 464, End |-> 474, Type |-> "Money11"],
     [Name |-> "CorrectCode403b", Start |-> 475, End |-> 485, Type |-> "Money11"],
     [Name |-> "OrigCodeF", Start |-> 486, End |-> 496, Type |-> "Money11"],
     [Name |-> "CorrectCodeF", Start |-> 497, End |-> 507, Type |-> "Money11"],
     [Name |-> "OrigCode457bGovt", Start |-> 508, End |-> 518, Type |-> "Money11"],
     [Name |-> "CorrectCode457bGovt", Start |-> 519, End |-> 529, Type |-> "Money11"],
     [Name |-> "OrigCodeH", Start |-> 530, End |-> 540, Type |-> "Money11"],
     [Name |-> "CorrectCodeH", Start |-> 541, End |-> 551, Type |-> "Money11"],
     [Name |-> "OrigTIBDeferredComp", Start |-> 552, End |-> 562, Type |-> "Money11"],
     [Name |-> "CorrectTIBDeferredComp", Start |-> 563, End |-> 573, Type |-> "Money11"],
     [Name |-> "Blank574", Start |-> 574, End |-> 595, Type |-> "Blank"],
     [Name |-> "OrigNonqualPlan457", Start |-> 596, End |-> 606, Type |-> "Money11"],
     [Name |-> "CorrectNonqualPlan457", Start |-> 607, End |-> 617, Type |-> "Money11"],
     [Name |-> "OrigCodeW_HSA", Start |-> 618, End |-> 628, Type |-> "Money11"],
     [Name |-> "CorrectCodeW_HSA", Start |-> 629, End |-> 639, Type |-> "Money11"],
     [Name |-> "OrigNonqualNotSection457", Start |-> 640, End |-> 650, Type |-> "Money11"],
     [Name |-> "CorrectNonqualNotSection457", Start |-> 651, End |-> 661, Type |-> "Money11"],
     [Name |-> "OrigCodeQ", Start |-> 662, End |-> 672, Type |-> "Money11"],
     [Name |-> "CorrectCodeQ", Start |-> 673, End |-> 683, Type |-> "Money11"],
     [Name |-> "Blank684", Start |-> 684, End |-> 705, Type |-> "Blank"],
     [Name |-> "OrigCodeC", Start |-> 706, End |-> 716, Type |-> "Money11"],
     [Name |-> "CorrectCodeC", Start |-> 717, End |-> 727, Type |-> "Money11"],
     [Name |-> "OrigCodeV", Start |-> 728, End |-> 738, Type |-> "Money11"],
     [Name |-> "CorrectCodeV", Start |-> 739, End |-> 749, Type |-> "Money11"],
     [Name |-> "OrigCodeY", Start |-> 750, End |-> 760, Type |-> "Money11"],
     [Name |-> "CorrectCodeY", Start |-> 761, End |-> 771, Type |-> "Money11"],
     [Name |-> "OrigCodeAA_Roth401k", Start |-> 772, End |-> 782, Type |-> "Money11"],
     [Name |-> "CorrectCodeAA_Roth401k", Start |-> 783, End |-> 793, Type |-> "Money11"],
     [Name |-> "OrigCodeBB_Roth403b", Start |-> 794, End |-> 804, Type |-> "Money11"],
     [Name |-> "CorrectCodeBB_Roth403b", Start |-> 805, End |-> 815, Type |-> "Money11"],
     [Name |-> "OrigCodeDD_EmpHealth", Start |-> 816, End |-> 826, Type |-> "Money11"],
     [Name |-> "CorrectCodeDD_EmpHealth", Start |-> 827, End |-> 837, Type |-> "Money11"],
     [Name |-> "OrigCodeFF_QSEHRA", Start |-> 838, End |-> 848, Type |-> "Money11"],
     [Name |-> "CorrectCodeFF_QSEHRA", Start |-> 849, End |-> 859, Type |-> "Money11"],
     [Name |-> "Blank860", Start |-> 860, End |-> 1002, Type |-> "Blank"],
     [Name |-> "OrigStatutoryEmployee", Start |-> 1003, End |-> 1003, Type |-> "Alpha"],
     [Name |-> "CorrectStatutoryEmployee", Start |-> 1004, End |-> 1004, Type |-> "Alpha"],
     [Name |-> "OrigRetirementPlan", Start |-> 1005, End |-> 1005, Type |-> "Alpha"],
     [Name |-> "CorrectRetirementPlan", Start |-> 1006, End |-> 1006, Type |-> "Alpha"],
     [Name |-> "OrigThirdPartySickPay", Start |-> 1007, End |-> 1007, Type |-> "Alpha"],
     [Name |-> "CorrectThirdPartySickPay", Start |-> 1008, End |-> 1008, Type |-> "Alpha"],
     [Name |-> "Blank1009", Start |-> 1009, End |-> 1024, Type |-> "Blank"] >>

baseRCO ==
  << [Name |-> "RecordIdentifier", Start |-> 1, End |-> 3, Type |-> "Fixed"],
     [Name |-> "Blank4", Start |-> 4, End |-> 12, Type |-> "Blank"],
     [Name |-> "OrigAllocatedTips", Start |-> 13, End |-> 23, Type |-> "Money11"],
     [Name |-> "CorrectAllocatedTips", Start |-> 24, End |-> 34, Type |-> "Money11"],
     [Name |-> "OrigUncollectedEETax", Start |-> 35, End |-> 45, Type |-> "Money11"],
     [Name |-> "CorrectUncollectedEETax", Start |-> 46, End |-> 56, Type |-> "Money11"],
     [Name |-> "OrigCodeR_MSA", Start |-> 57, End |-> 67, Type |-> "Money11"],
     [Name |-> "CorrectCodeR_MSA", Start |-> 68, End |-> 78, Type |-> "Money11"],
     [Name |-> "OrigCodeS_SIMPLE", Start |-> 79, End |-> 89, Type |-> "Money11"],
     [Name |-> "CorrectCodeS_SIMPLE", Start |-> 90, End |-> 100, Type |-> "Money11"],
     [Name |-> "OrigCodeT_Adoption", Start |-> 101, End |-> 111, Type |-> "Money11"],
     [Name |-> "CorrectCodeT_Adoption", Start |-> 112, End |-> 122, Type |-> "Money11"],
     [Name |-> "OrigCodeM_UncollSS", Start |-> 123, End |-> 133, Type |-> "Money11"],
     [Name |-> "CorrectCodeM_UncollSS", Start |-> 134, End |-> 144, Type |-> "Money11"],
     [Name |-> "OrigCodeN_UncollMed", Start |-> 145, End |-> 155, Type |-> "Money11"],
     [Name |-> "CorrectCodeN_UncollMed", Start |-> 156, End |-> 166, Type |-> "Money11"],
     [Name |-> "OrigCodeZ_409A", Start |-> 167, End |-> 177, Type |-> "Money11"],
     [Name |-> "CorrectCodeZ_409A", Start |-> 178, End |-> 188, Type |-> "Money11"],
     [Name |-> "Blank189", Start |-> 189, End |-> 210, Type |-> "Blank"],
     [Name |-> "OrigCodeEE_Roth457b", Start |-> 211, End |-> 221, Type |-> "Money11"],
     [Name |-> "CorrectCodeEE_Roth457b", Start |-> 222, End |-> 232, Type |-> "Money11"],
     [Name |-> "OrigCodeGG_83i", Start |-> 233, End |-> 243, Type |-> "Money11"],
     [Name |-> "CorrectCodeGG_83i", Start |-> 244, End |-> 254, Type |-> "Money11"],
     [Name |-> "OrigCodeHH_83iDeferral", Start |-> 255, End |-> 265, Type |-> "Money11"],
     [Name |-> "CorrectCodeHH_83iDeferral", Start |-> 266, End |-> 276, Type |-> "Money11"],
     [Name |-> "Blank277", Start |-> 277, End |-> 1024, Type |-> "Blank"] >>

baseRCS ==
  << [Name |-> "RecordIdentifier", Start |-> 1, End |-> 3, Type |-> "Fixed"],
     [Name |-> "StateCode", Start |-> 4, End |-> 5, Type |-> "Numeric"],
     [Name |-> "OrigTaxingEntityCode", Start |-> 6, End |-> 10, Type |-> "Alpha"],
     [Name |-> "CorrectTaxingEntityCode", Start |-> 11, End |-> 15, Type |-> "Alpha"],
     [Name |-> "OrigSSN", Start |-> 16, End |-> 24, Type |-> "Numeric"],
     [Name |-> "CorrectSSN", Start |-> 25, End |-> 33, Type |-> "Numeric"],
     [Name |-> "OrigFirstName", Start |-> 34, End |-> 48, Type |-> "Alpha"],
     [Name |-> "OrigMiddleName", Start |-> 49, End |-> 63, Type |-> "Alpha"],
     [Name |-> "OrigLastName", Start |-> 64, End |-> 83, Type |-> "Alpha"],
     [Name |-> "CorrectFirstName", Start |-> 84, End |-> 98, Type |-> "Alpha"],
     [Name |-> "CorrectMiddleName", Start |-> 99, End |-> 113, Type |-> "Alpha"],
     [Name |-> "CorrectLastName", Start |-> 114, End |-> 133, Type |-> "Alpha"],
     [Name |-> "LocationAddress", Start |-> 134, End |-> 155, Type |-> "Alpha"],
     [Name |-> "DeliveryAddress", Start |-> 156, End |-> 177, Type |-> "Alpha"],
     [Name |-> "City", Start |-> 178, End |-> 199, Type |-> "Alpha"],
     [Name |-> "StateAbbrev", Start |-> 200, End |-> 201, Type |-> "Alpha"],
     [Name |-> "ZIPCode", Start |-> 202, End |-> 206, Type |-> "Numeric"],
     [Name |-> "ZIPExtension", Start |-> 207, End |-> 210, Type |-> "Numeric"],
     [Name |-> "Blank211", Start |-> 211, End |-> 395, Type |-> "Blank"],
     [Name |-> "StateCode2", Start |-> 396, End |-> 397, Type |-> "Numeric"],
     [Name |-> "OrigStateWages", Start |-> 398, End |-> 408, Type |-> "Money11"],
     [Name |-> "CorrectStateWages", Start |-> 409, End |-> 419, Type |-> "Money11"],
     [Name |-> "OrigStateIncomeTax", Start |-> 420, End |-> 430, Type |-> "Money11"],
     [Name |-> "CorrectStateIncomeTax", Start |-> 431, End |-> 441, Type |-> "Money11"],
     [Name |-> "Blank442", Start |-> 442, End |-> 1024, Type |-> "Blank"] >>

baseRCT ==
  << [Name |-> "RecordIdentifier", Start |-> 1, End |-> 3, Type |-> "Fixed"],
     [Name |-> "TotalRCWRecords", Start |-> 4, End |-> 10, Type |-> "Numeric"],
     [Name |-> "OrigTotalWagesTips", Start |-> 11, End |-> 25, Type |-> "Money15"],
     [Name |-> "CorrectTotalWagesTips", Start |-> 26, End |-> 40, Type |-> "Money15"],
     [Name |-> "OrigTotalFedIncomeTax", Start |-> 41, End |-> 55, Type |-> "Money15"],
     [Name |-> "CorrectTotalFedIncomeTax", Start |-> 56, End |-> 70, Type |-> "Money15"],
     [Name |-> "OrigTotalSSWages", Start |-> 71, End |-> 85, Type |-> "Money15"],
     [Name |-> "CorrectTotalSSWages", Start |-> 86, End |-> 100, Type |-> "Money15"],
     [Name |-> "OrigTotalSSTax", Start |-> 101, End |-> 115, Type |-> "Money15"],
     [Name |-> "CorrectTotalSSTax", Start |-> 116, End |-> 130, Type |-> "Money15"],
     [Name |-> "OrigTotalMedicareWages", Start |-> 131, End |-> 145, Type |-> "Money15"],
     [Name |-> "CorrectTotalMedicareWages", Start |-> 146, End |-> 160, Type |-> "Money15"],
     [Name |-> "OrigTotalMedicareTax", Start |-> 161, End |-> 175, Type |-> "Money15"],
     [Name |-> "CorrectTotalMedicareTax", Start |-> 176, End |-> 190, Type |-> "Money15"],
     [Name |-> "OrigTotalSSTips", Start |-> 191, End |-> 205, Type |-> "Money15"],
     [Name |-> "CorrectTotalSSTips", Start |-> 206, End |-> 220, Type |-> "Money15"],
     [Name |-> "Blank221", Start |-> 221, End |-> 250, Type |-> "Blank"],
     [Name |-> "OrigTotalDependentCare", Start |-> 251, End |-> 265, Type |-> "Money15"],
     [Name |-> "CorrectTotalDependentCare", Start |-> 266, End |-> 280, Type |-> "Money15"],
     [Name |-> "OrigTotalCode401k", Start |-> 281, End |-> 295, Type |-> "Money15"],
     [Name |-> "CorrectTotalCode401k", Start |-> 296, End |-> 310, Type |-> "Money15"],
     [Name |-> "OrigTotalCode403b", Start |-> 311, End |-> 325, Type |-> "Money15"],
     [Name |-> "CorrectTotalCode403b", Start |-> 326, End |-> 340, Type |-> "Money15"],
     [Name |-> "OrigTotalCodeF", Start |-> 341, End |-> 355, Type |-> "Money15"],
     [Name |-> "CorrectTotalCodeF", Start |-> 356, End |-> 370, Type |-> "Money15"],
     [Name |-> "OrigTotalCode457bGovt", Start |-> 371, End |-> 385, Type |-> "Money15"],
     [Name |-> "CorrectTotalCode457bGovt", Start |-> 386, End |-> 400, Type |-> "Money15"],
     [Name |-> "OrigTotalCodeH", Start |-> 401, End |-> 415, Type |-> "Money15"],
     [Name |-> "CorrectTotalCodeH", Start |-> 416, End |-> 430, Type |-> "Money15"],
     [Name |-> "OrigTotalTIBDeferredComp", Start |-> 431, End |-> 445, Type |-> "Money15"],
     [Name |-> "CorrectTotalTIBDeferredComp", Start |-> 446, End |-> 460, Type |-> "Money15"],
     [Name |-> "Blank461", Start |-> 461, End |-> 490, Type |-> "Blank"],
     [Name |-> "OrigTotalNonqualPlan457", Start |-> 491, End |-> 505, Type |-> "Money15"],
     [Name |-> "CorrectTotalNonqualPlan457", Start |-> 506, End |-> 520, Type |-> "Money15"],
     [Name |-> "OrigTotalCodeW_HSA", Start |-> 521, End |-> 535, Type |-> "Money15"],
     [Name |-> "CorrectTotalCodeW_HSA", Start |-> 536, End |-> 550, Type |-> "Money15"],
     [Name |-> "OrigTotalNonqualNotSection457", Start |-> 551, End |-> 565, Type |-> "Money15"],
     [Name |-> "CorrectTotalNonqualNotSection457", Start |-> 566, End |-> 580, Type |-> "Money15"],
     [Name |-> "OrigTotalCodeQ", Start |-> 581, End |-> 595, Type |-> "Money15"],
     [Name |-> "CorrectTotalCodeQ", Start |-> 596, End |-> 610, Type |-> "Money15"],
     [Name |-> "Blank611", Start |-> 611, End |-> 640, Type |-> "Blank"],
     [Name |-> "OrigTotalCodeC", Start |-> 641, End |-> 655, Type |-> "Money15"],
     [Name |-> "CorrectTotalCodeC", Start |-> 656, End |-> 670, Type |-> "Money15"],
     [Name |-> "OrigTotalCodeV", Start |-> 671, End |-> 685, Type |-> "Money15"],
     [Name |-> "CorrectTotalCodeV", Start |-> 686, End |-> 700, Type |-> "Money15"],
     [Name |-> "OrigTotalCodeY", Start |-> 701, End |-> 715, Type |-> "Money15"],
     [Name |-> "CorrectTotalCodeY", Start |-> 716, End |-> 730, Type |-> "Money15"],
     [Name |-> "OrigTotalCodeAA_Roth401k", Start |-> 731, End |-> 745, Type |-> "Money15"],
     [Name |-> "CorrectTotalCodeAA_Roth401k", Start |-> 746, End |-> 760, Type |-> "Money15"],
     [Name |-> "OrigTotalCodeBB_Roth403b", Start |-> 761, End |-> 775, Type |-> "Money15"],
     [Name |-> "CorrectTotalCodeBB_Roth403b", Start |-> 776, End |-> 790, Type |-> "Money15"],
     [Name |-> "OrigTotalCodeDD_EmpHealth", Start |-> 791, End |-> 805, Type |-> "Money15"],
     [Name |-> "CorrectTotalCodeDD_EmpHealth", Start |-> 806, End |-> 820, Type |-> "Money15"],
     [Name |-> "OrigTotalCodeFF_QSEHRA", Start |-> 821, End |-> 835, Type |-> "Money15"],
     [Name |-> "CorrectTotalCodeFF_QSEHRA", Start |-> 836, End |-> 850, Type |-> "Money15"],
     [Name |-> "Blank851", Start |-> 851, End |-> 1024, Type |-> "Blank"] >>

baseRCF ==
  << [Name |-> "RecordIdentifier", Start |-> 1, End |-> 3, Type |-> "Fixed"],
     [Name |-> "TotalRCWRecords", Start |-> 4, End |-> 10, Type |-> "Numeric"],
     [Name |-> "Blank11", Start |-> 11, End |-> 1024, Type |-> "Blank"] >>

\* func baseSpec(year int) *YearSpec
baseSpec(year) ==
  [ TaxYear |-> year, PublicationURL |-> "", SSWageBase |-> 0,
    RCA |-> baseRCA, RCE |-> baseRCE, RCW |-> baseRCW, RCO |-> baseRCO,
    RCS |-> baseRCS, RCT |-> baseRCT, RCF |-> baseRCF ]

ty2021 ==
  [ baseSpec(2021) EXCEPT
      !.PublicationURL = "https://www.ssa.gov/employer/efw/21efw2c.pdf",
      !.SSWageBase = 14280000 ]

ty2022 ==
  [ baseSpec(2022) EXCEPT
      !.PublicationURL = "https://www.ssa.gov/employer/efw/22efw2c.pdf",
      !.SSWageBase = 14700000 ]

ty2023 ==
  [ baseSpec(2023) EXCEPT
      !.PublicationURL = "https://www.ssa.gov/employer/efw/23efw2c.pdf",
      !.SSWageBase = 16020000 ]

\* ty2024 appending the Code II fields without dropping the trailing blank.
ty2024KeepBlank ==
  LET s == baseSpec(2024)
  IN  [ s EXCEPT
          !.PublicationURL = "https://www.ssa.gov/employer/efw/24efw2c.pdf",
          !.SSWageBase = 16860000,
          !.RCO = s.RCO \o
            << [Name |-> "OrigMedicaidWaiver", Start |-> 277, End |-> 287, Type |-> "Money11"],
               [Name |-> "CorrectMedicaidWaiver", Start |-> 288, End |-> 298, Type |-> "Money11"],
               [Name |-> "Blank299", Start |-> 299, End |-> 1024, Type |-> "Blank"] >> ]

\* ty2024 drops the trailing Blank277 of the base RCO table and appends the
\* Code II pair and a new trailing blank.
ty2024 ==
  LET s   == baseSpec(2024)
      rco == SubSeq(s.RCO, 1, Len(s.RCO) - 1)
  IN  [ s EXCEPT
          !.PublicationURL = "https://www.ssa.gov/employer/efw/24efw2c.pdf",
          !.SSWageBase = 16860000,
          !.RCO = rco \o
            << [Name |-> "OrigMedicaidWaiver", Start |-> 277, End |-> 287, Type |-> "Money11"],
               [Name |-> "CorrectMedicaidWaiver", Start |-> 288, End |-> 298, Type |-> "Money11"],
               [Name |-> "Blank299", Start |-> 299, End |-> 1024, Type |-> "Blank"] >> ]

\* func Supported() []int
Supported == <<2021, 2022, 2023, 2024>>

\* var specs = map[int]*YearSpec{...}
specs ==
  [ y \in {2021, 2022, 2023, 2024} |->
      CASE y = 2021 -> ty2021
        [] y = 2022 -> ty2022
        [] y = 2023 -> ty2023
        [] y = 2024 -> ty2024 ]

\* ForYear falling back to the oldest layout instead of the default year's.
ForYearFallbackOldest(year) ==
  IF year \in DOMAIN specs
    THEN [spec |-> specs[year], ok |-> TRUE]
    ELSE [spec |-> specs[Supported[1]], ok |-> FALSE]

\* func ForYear(year int) (*YearSpec, bool)
ForYear(year) ==
  IF year \in DOMAIN specs
    THEN [spec |-> specs[year], ok |-> TRUE]
    ELSE [spec |-> specs[DefaultYear], ok |-> FALSE]

\* The seven field lists of a year spec, by record kind.
RecordKinds == <<"RCA", "RCE", "RCW", "RCO", "RCS", "RCT", "RCF">>

FieldsOf(ys, kind) ==
  CASE kind = "RCA" -> ys.RCA
    [] kind = "RCE" -> ys.RCE
    [] kind = "RCW" -> ys.RCW
    [] kind = "RCO" -> ys.RCO
    [] kind = "RCS" -> ys.RCS
    [] kind = "RCT" -> ys.RCT
    [] kind = "RCF" -> ys.RCF

(***************************************************************************)
(* Go strings and int64 values.                                            *)
(***************************************************************************)

\* strings.Repeat of a one-character string
Repeat(c, n) == [k \in 1 .. n |-> c]

\* unicode.IsDigit, on the ASCII range
IsDigit(c) == c \in {"0", "1", "2", "3", "4", "5", "6", "7", "8", "9"}

\* unicode.IsSpace, on the ASCII range (strings.TrimSpace)
IsSpace(c) == c \in {" ", "\t", "\n", "\r"}

LowerLetters ==
  << "a", "b", "c", "d", "e", "f", "g", "h", "i", "j", "k", "l", "m",
     "n", "o", "p", "q", "r", "s", "t", "u", "v", "w", "x", "y", "z" >>

UpperLetters ==
  << "A", "B", "C", "D", "E", "F", "G", "H", "I", "J", "K", "L", "M",
     "N", "O", "P", "Q", "R", "S", "T", "U", "V", "W", "X", "Y", "Z" >>

\* strings.ToUpper
ToUpper(s) ==
  [ k \in 1 .. Len(s) |->
      IF \E j \in 1 .. 26 : LowerLetters[j] = s[k]
        THEN UpperLetters[CHOOSE j \in 1 .. 26 : LowerLetters[j] = s[k]]
        ELSE s[k] ]

\* strings.TrimSpace
TrimSpace(s) ==
  IF \A k \in 1 .. Len(s) : IsSpace(s[k])
    THEN << >>
    ELSE LET first == CHOOSE k \in 1 .. Len(s) :
                        /\ ~IsSpace(s[k])
                        /\ \A j \in 1 .. k - 1 : IsSpace(s[j])
             last  == CHOOSE k \in 1 .. Len(s) :
                        /\ ~IsSpace(s[k])
                        /\ \A j \in k + 1 .. Len(s) : IsSpace(s[j])
         IN  SubSeq(s, first, last)

\* An int64 is [neg, mag]: mag is the decimal magnitude, most significant
\* digit first, without leading zeros; zero is the empty magnitude.
Zero64 == [neg |-> FALSE, mag |-> << >>]

RECURSIVE NatDigits(_)
NatDigits(n) == IF n = 0 THEN << >> ELSE NatDigits(n \div 10) \o <<n % 10>>

\* The int64 of a small integer literal.
Int64(n) ==
  IF n < 0 THEN [neg |-> TRUE, mag |-> NatDigits(0 - n)]
           ELSE [neg |-> FALSE, mag |-> NatDigits(n)]

Reverse(s) == [k \in 1 .. Len(s) |-> s[Len(s) + 1 - k]]

RECURSIVE StripZeros(_)
StripZeros(s) ==
  IF s # << >> /\ Head(s) = 0 THEN StripZeros(Tail(s)) ELSE s

\* Magnitude addition, least significant digit first.
RECURSIVE AddLE(_, _, _)
AddLE(a, b, carry) ==
  IF a = << >> /\ b = << >>
    THEN (IF carry = 0 THEN << >> ELSE <<carry>>)
    ELSE LET x == IF a = << >> THEN 0 ELSE Head(a)
             y == IF b = << >> THEN 0 ELSE Head(b)
             t == x + y + carry
         IN  <<t % 10>> \o AddLE(IF a = << >> THEN << >> ELSE Tail(a),
                                 IF b = << >> THEN << >> ELSE Tail(b),
                                 t \div 10)

\* Magnitude subtraction a - b for a >= b, least significant digit first.
RECURSIVE SubLE(_, _, _)
SubLE(a, b, borrow) ==
  IF a = << >>
    THEN << >>
    ELSE LET y == IF b = << >> THEN 0 ELSE Head(b)
             t == Head(a) - y - borrow
         IN  <<(t + 10) % 10>> \o SubLE(Tail(a),
                                        IF b = << >> THEN << >> ELSE Tail(b),
                                        IF t < 0 THEN 1 ELSE 0)

MagAdd(a, b) == Reverse(AddLE(Reverse(a), Reverse(b), 0))

MagSub(a, b) == StripZeros(Reverse(SubLE(Reverse(a), Reverse(b), 0)))

MagLess(a, b) ==
  \/ Len(a) < Len(b)
  \/ /\ Len(a) = Len(b)
     /\ \E k \in 1 .. Len(a) :
          /\ a[k] < b[k]
          /\ \A j \in 1 .. k - 1 : a[j] = b[j]

\* Signed addition without a width.
AddZ(x, y) ==
  IF x.neg = y.neg
    THEN [neg |-> x.neg, mag |-> MagAdd(x.mag, y.mag)]
    ELSE IF x.mag = y.mag
      THEN Zero64
      ELSE IF MagLess(x.mag, y.mag)
        THEN [neg |-> y.neg, mag |-> MagSub(y.mag, x.mag)]
        ELSE [neg |-> x.neg, mag |-> MagSub(x.mag, y.mag)]

\* 2^63 and 2^64
Two63 == <<9, 2, 2, 3, 3, 7, 2, 0, 3, 6, 8, 5, 4, 7, 7, 5, 8, 0, 8>>

Two64 == <<1, 8, 4, 4, 6, 7, 4, 4, 0, 7, 3, 7, 0, 9, 5, 5, 1, 6, 1, 6>>

\* Go's int64 addition (+=): two's complement, wraps at 2^63.
Add64(x, y) ==
  LET z == AddZ(x, y)
  IN  IF ~z.neg /\ ~MagLess(z.mag, Two63)
        THEN AddZ(z, [neg |-> TRUE, mag |-> Two64])
        ELSE IF z.neg /\ MagLess(Two63, z.mag)
          THEN AddZ(z, [neg |-> FALSE, mag |-> Two64])
          ELSE z

DigitChar == <<"1", "2", "3", "4", "5", "6", "7", "8", "9">>

\* The decimal digits of a magnitude as characters ("0" for zero).
Itoa(mag) ==
  IF mag = << >>
    THEN <<"0">>
    ELSE [k \in 1 .. Len(mag) |-> IF mag[k] = 0 THEN "0" ELSE DigitChar[mag[k]]]

\* fmt.Sprintf("%0<width>d", v): sign, then zeros up to the width, then the
\* digits; never shorter than the digits themselves.
SprintfPad0(width, v) ==
  LET ds   == Itoa(v.mag)
      sign == IF v.neg THEN <<"-">> ELSE << >>
      pad  == width - Len(ds) - Len(sign)
  IN  sign \o Repeat("0", IF pad > 0 THEN pad ELSE 0) \o ds

\* strconv.Atoi with the error dropped: 0 unless s is an optional sign
\* followed by decimal digits.
Atoi(s) ==
  LET body == IF s # << >> /\ Head(s) \in {"+", "-"} THEN Tail(s) ELSE s
      val[k \in 0 .. Len(body)] ==
        IF k = 0 THEN 0
        ELSE val[k - 1] * 10 +
             (IF body[k] = "0" THEN 0
              ELSE CHOOSE d \in 1 .. 9 : DigitChar[d] = body[k])
  IN  IF body = << >> \/ \E k \in 1 .. Len(body) : ~IsDigit(body[k])
        THEN 0
        ELSE IF Head(s) = "-" THEN 0 - val[Len(body)] ELSE val[Len(body)]

(***************************************************************************)
(* Field formatters.                                                       *)
(***************************************************************************)

\* func padAlpha(s string, n int) string
padAlpha(s, n) ==
  LET u == ToUpper(TrimSpace(s))
  IN  IF Len(u) > n THEN SubSeq(u, 1, n) ELSE u \o Repeat(" ", n - Len(u))

\* func padNumeric(s string, n int) string
padNumeric(s, n) ==
  LET result == SelectSeq(s, IsDigit)
  IN  IF Len(result) > n THEN SubSeq(result, 1, n)
                         ELSE result \o Repeat(" ", n - Len(result))

\* func padEmail(s string, n int) string
padEmail(s, n) ==
  LET u == TrimSpace(s)
  IN  IF Len(u) > n THEN SubSeq(u, 1, n) ELSE u \o Repeat(" ", n - Len(u))

\* func cleanDigits(s string, n int) string
cleanDigits(s, n) ==
  LET result == SelectSeq(s, IsDigit)
  IN  IF Len(result) > n THEN SubSeq(result, 1, n)
                         ELSE result \o Repeat("0", n - Len(result))

\* func money11(cents int64) string
money11(cents) == SprintfPad0(11, IF cents.neg THEN Zero64 ELSE cents)

\* func money15(cents int64) string
money15(cents) == SprintfPad0(15, IF cents.neg THEN Zero64 ELSE cents)

\* func boolChar(b bool) string
boolChar(b) == IF b THEN <<"1">> ELSE <<"0">>

\* defaultStr returning the fallback whatever s is.
defaultStrAlways(s, fallback) == fallback

\* func defaultStr(s, fallback string) string
defaultStr(s, fallback) == IF s = << >> THEN fallback ELSE s

codes ==
  { << <<"A","L">>, <<"0","1">> >>, << <<"A","K">>, <<"0","2">> >>, << <<"A","Z">>, <<"0","3">> >>, << <<"A","R">>, <<"0","4">> >>,
    << <<"C","A">>, <<"0","5">> >>, << <<"C","O">>, <<"0","6">> >>, << <<"C","T">>, <<"0","7">> >>, << <<"D","E">>, <<"0","8">> >>,
    << <<"F","L">>, <<"0","9">> >>, << <<"G","A">>, <<"1","0">> >>, << <<"H","I">>, <<"1","1">> >>, << <<"I","D">>, <<"1","2">> >>,
    << <<"I","L">>, <<"1","3">> >>, << <<"I","N">>, <<"1","4">> >>, << <<"I","A">>, <<"1","5">> >>, << <<"K","S">>, <<"1","6">> >>,
    << <<"K","Y">>, <<"1","7">> >>, << <<"L","A">>, <<"1","8">> >>, << <<"M","E">>, <<"1","9">> >>, << <<"M","D">>, <<"2","0">> >>,
    << <<"M","A">>, <<"2","1">> >>, << <<"M","I">>, <<"2","2">> >>, << <<"M","N">>, <<"2","3">> >>, << <<"M","S">>, <<"2","4">> >>,
    << <<"M","O">>, <<"2","5">> >>, << <<"M","T">>, <<"2","6">> >>, << <<"N","E">>, <<"2","7">> >>, << <<"N","V">>, <<"2","8">> >>,
    << <<"N","H">>, <<"2","9">> >>, << <<"N","J">>, <<"3","0">> >>, << <<"N","M">>, <<"3","1">> >>, << <<"N","Y">>, <<"3","2">> >>,
    << <<"N","C">>, <<"3","3">> >>, << <<"N","D">>, <<"3","4">> >>, << <<"O","H">>, <<"3","5">> >>, << <<"O","K">>, <<"3","6">> >>,
    << <<"O","R">>, <<"3","7">> >>, << <<"P","A">>, <<"3","8">> >>, << <<"R","I">>, <<"3","9">> >>, << <<"S","C">>, <<"4","0">> >>,
    << <<"S","D">>, <<"4","1">> >>, << <<"T","N">>, <<"4","2">> >>, << <<"T","X">>, <<"4","3">> >>, << <<"U","T">>, <<"4","4">> >>,
    << <<"V","T">>, <<"4","5">> >>, << <<"V","A">>, <<"4","6">> >>, << <<"W","A">>, <<"4","7">> >>, << <<"W","V">>, <<"4","8">> >>,
    << <<"W","I">>, <<"4","9">> >>, << <<"W","Y">>, <<"5","0">> >>, << <<"D","C">>, <<"5","1">> >>, << <<"P","R">>, <<"7","2">> >>,
    << <<"V","I">>, <<"7","8">> >>, << <<"G","U">>, <<"6","6">> >>, << <<"A","S">>, <<"6","0">> >>, << <<"M","P">>, <<"6","9">> >> }

\* func statePostalToNumeric(abbr string) string
statePostalToNumeric(abbr) ==
  LET key == ToUpper(TrimSpace(abbr))
  IN  IF \E p \in codes : p[1] = key
        THEN (CHOOSE p \in codes : p[1] = key)[2]
        ELSE <<" ", " ">>

(***************************************************************************)
(* Fixed record buffer.  panicked records that put has panicked: the       *)
(* builder, and Generate with it, stops there.                             *)
(***************************************************************************)

\* newBuf without the loop that fills the buffer: the zero bytes of make.
newBufZeroed == [data |-> Repeat("NUL", RecordLen), panicked |-> FALSE]

\* func newBuf() *fixedBuf
newBuf == [data |-> Repeat(" ", RecordLen), panicked |-> FALSE]

\* put copying the whole value, past the end of the field.
putNoTruncate(b, fieldName, fields, value) ==
  IF b.panicked
    THEN b
    ELSE IF \E k \in 1 .. Len(fields) : fields[k].Name = fieldName
      THEN LET k == CHOOSE k \in 1 .. Len(fields) :
                      /\ fields[k].Name = fieldName
                      /\ \A j \in 1 .. k - 1 : fields[j].Name # fieldName
               f == fields[k]
           IN  [b EXCEPT !.data =
                  SubSeq(b.data, 1, f.Start - 1) \o value \o
                  SubSeq(b.data, f.Start + Len(value), Len(b.data))]
      ELSE [b EXCEPT !.panicked = TRUE]

\* put passing over an unknown field name without a word.
putIgnoreUnknown(b, fieldName, fields, value) ==
  IF b.panicked
    THEN b
    ELSE IF \E k \in 1 .. Len(fields) : fields[k].Name = fieldName
      THEN LET k     == CHOOSE k \in 1 .. Len(fields) :
                          /\ fields[k].Name = fieldName
                          /\ \A j \in 1 .. k - 1 : fields[j].Name # fieldName
               f     == fields[k]
               width == f.End - f.Start + 1
               v     == IF Len(value) > width THEN SubSeq(value, 1, width) ELSE value
           IN  [b EXCEPT !.data =
                  SubSeq(b.data, 1, f.Start - 1) \o v \o
                  SubSeq(b.data, f.Start + Len(v), Len(b.data))]
      ELSE b

\* put filling the rest of the field with spaces when the value is short.
putPadded(b, fieldName, fields, value) ==
  IF b.panicked
    THEN b
    ELSE IF \E k \in 1 .. Len(fields) : fields[k].Name = fieldName
      THEN LET k     == CHOOSE k \in 1 .. Len(fields) :
                          /\ fields[k].Name = fieldName
                          /\ \A j \in 1 .. k - 1 : fields[j].Name # fieldName
               f     == fields[k]
               width == f.End - f.Start + 1
               v     == IF Len(value) > width
                          THEN SubSeq(value, 1, width)
                          ELSE value \o Repeat(" ", width - Len(value))
           IN  [b EXCEPT !.data =
                  SubSeq(b.data, 1, f.Start - 1) \o v \o
                  SubSeq(b.data, f.Start + Len(v), Len(b.data))]
      ELSE [b EXCEPT !.panicked = TRUE]

\* func (b *fixedBuf) put(fieldName string, fields []spec.Field, value string)
put(b, fieldName, fields, value) ==
  IF b.panicked
    THEN b
    ELSE IF \E k \in 1 .. Len(fields) : fields[k].Name = fieldName
      THEN LET k     == CHOOSE k \in 1 .. Len(fields) :
                          /\ fields[k].Name = fieldName
                          /\ \A j \in 1 .. k - 1 : fields[j].Name # fieldName
               f     == fields[k]
               width == f.End - f.Start + 1
               v     == IF Len(value) > width THEN SubSeq(value, 1, width) ELSE value
           IN  IF f.Start < 1 \/ f.End > Len(b.data) \/ width < 0
                 THEN [b EXCEPT !.panicked = TRUE]
                 ELSE [b EXCEPT !.data =
                         SubSeq(b.data, 1, f.Start - 1) \o v \o
                         SubSeq(b.data, f.Start + Len(v), Len(b.data))]
      ELSE [b EXCEPT !.panicked = TRUE]

\* One put call a record builder issues.
Put(fieldName, fields, value) ==
  [fieldName |-> fieldName, fields |-> fields, value |-> value]

\* The put calls of a builder, applied in program order.
RECURSIVE Run(_, _)
Run(b, puts) ==
  IF puts = << >>
    THEN b
    ELSE Run(put(b, Head(puts).fieldName, Head(puts).fields, Head(puts).value),
             Tail(puts))

\* func putMoney11Pair(b, fields, origName, corrName, orig, corr): the puts it issues
putMoney11Pair(fields, origName, corrName, orig, corr) ==
  IF orig = Zero64 /\ corr = Zero64
    THEN << >>
    ELSE << Put(origName, fields, money11(orig)),
            Put(corrName, fields, money11(corr)) >>

\* putMoney15Pair skipping a pair as soon as one of its sides is zero.
putMoney15PairBothNonZero(fields, origName, corrName, orig, corr) ==
  IF orig = Zero64 \/ corr = Zero64
    THEN << >>
    ELSE << Put(origName, fields, money15(orig)),
            Put(corrName, fields, money15(corr)) >>

\* func putMoney15Pair(b, fields, origName, corrName, orig, corr): the puts it issues
putMoney15Pair(fields, origName, corrName, orig, corr) ==
  IF orig = Zero64 /\ corr = Zero64
    THEN << >>
    ELSE << Put(origName, fields, money15(orig)),
            Put(corrName, fields, money15(corr)) >>

\* putBox13 writing a pair only when both of its sides are set.
putBox13BothOrNone(fields, origName, corrName, orig, corr) ==
  IF orig = << >> \/ corr = << >>
    THEN << >>
    ELSE << Put(origName, fields, boolChar(orig[1])),
            Put(corrName, fields, boolChar(corr[1])) >>

\* func putBox13(b, fields, origName, corrName, orig, corr *bool): the puts it
\* issues.  A *bool is << >> (nil) or <<v>>.
putBox13(fields, origName, corrName, orig, corr) ==
  IF orig = << >> /\ corr = << >>
    THEN << >>
    ELSE (IF orig # << >> THEN << Put(origName, fields, boolChar(orig[1])) >> ELSE << >>) \o
         (IF corr # << >> THEN << Put(corrName, fields, boolChar(corr[1])) >> ELSE << >>)

(***************************************************************************)
(* Record builders.  g is the Generator {year, yspec}; each xxxPuts is the *)
(* sequence of put calls the builder issues, in program order, and the     *)
(* builder's result is the buffer they leave.                              *)
(***************************************************************************)

\* hasRCOData triggered by any optional amount pair, Box 12 Code W included.
hasRCODataAnyOptional(g, e) ==
  LET a == e.Amounts
  IN  \/ a.OriginalAllocatedTips # Zero64 \/ a.CorrectAllocatedTips # Zero64
      \/ a.OriginalCodeW_HSA # Zero64 \/ a.CorrectCodeW_HSA # Zero64

\* func (g *Generator) hasRCOData(e *domain.EmployeeRecord) bool
hasRCOData(g, e) ==
  LET a == e.Amounts
  IN  a.OriginalAllocatedTips # Zero64 \/ a.CorrectAllocatedTips # Zero64

\* hasRCSData looking at the state codes only.
hasRCSDataCodesOnly(g, e) ==
  e.OriginalStateCode # << >> \/ e.CorrectStateCode # << >>

\* hasRCSData counting the locality fields as state data.
hasRCSDataLocality(g, e) ==
  \/ e.OriginalStateCode # << >> \/ e.CorrectStateCode # << >>
  \/ e.OriginalLocalityName # << >> \/ e.CorrectLocalityName # << >>
  \/ e.Amounts.OriginalStateWages # Zero64 \/ e.Amounts.CorrectStateWages # Zero64
  \/ e.Amounts.OriginalStateIncomeTax # Zero64 \/ e.Amounts.CorrectStateIncomeTax # Zero64

\* func (g *Generator) hasRCSData(e *domain.EmployeeRecord) bool
hasRCSData(g, e) ==
  \/ e.OriginalStateCode # << >> \/ e.CorrectStateCode # << >>
  \/ e.Amounts.OriginalStateWages # Zero64 \/ e.Amounts.CorrectStateWages # Zero64
  \/ e.Amounts.OriginalStateIncomeTax # Zero64 \/ e.Amounts.CorrectStateIncomeTax # Zero64

rcaPuts(g, s) ==
  LET sub            == s.Submitter
      preparerCode   == IF sub.PreparerCode = << >> THEN <<"L">> ELSE sub.PreparerCode
      resubIndicator == IF sub.ResubIndicator = << >> THEN <<"0">> ELSE sub.ResubIndicator
      f              == g.yspec.RCA
  IN  << Put("RecordIdentifier", f, <<"R", "C", "A">>),
         Put("SubmitterEIN", f, cleanDigits(s.Employer.EIN, 9)),
         Put("BSOUID", f, padAlpha(sub.BSOUID, 8)),
         Put("CompanyName", f, padAlpha(s.Employer.Name, 57)),
         Put("LocationAddress", f, padAlpha(s.Employer.AddressLine1, 22)),
         Put("DeliveryAddress", f, padAlpha(s.Employer.AddressLine2, 22)),
         Put("City", f, padAlpha(s.Employer.City, 22)),
         Put("StateAbbrev", f, padAlpha(s.Employer.State, 2)),
         Put("ZIPCode", f, padNumeric(s.Employer.ZIP, 5)),
         Put("ZIPExtension", f, padNumeric(s.Employer.ZIPExtension, 4)),
         Put("ContactName", f, padAlpha(sub.ContactName, 27)),
         Put("ContactPhone", f, padNumeric(sub.ContactPhone, 15)),
         Put("ContactEmail", f, padEmail(sub.ContactEmail, 40)),
         Put("PreparerCode", f, preparerCode),
         Put("ResubIndicator", f, resubIndicator) >> \o
      (IF sub.ResubWFID # << >>
         THEN << Put("ResubWFID", f, padAlpha(sub.ResubWFID, 6)) >>
         ELSE << >>)

\* func (g *Generator) buildRCA(s *domain.Submission) string
buildRCA(g, s) == Run(newBuf, rcaPuts(g, s))

rcePuts(g, s) ==
  LET f  == g.yspec.RCE
      em == s.Employer
  IN  << Put("RecordIdentifier", f, <<"R", "C", "E">>),
         Put("TaxYear", f, em.TaxYear) >> \o
      (IF em.OriginalEIN # << >>
         THEN << Put("OrigReportedEIN", f, cleanDigits(em.OriginalEIN, 9)) >>
         ELSE << >>) \o
      << Put("EmployerEIN", f, cleanDigits(em.EIN, 9)) >> \o
      (IF em.AgentIndicator # << >>
         THEN << Put("AgentIndicatorCode", f, em.AgentIndicator) >>
         ELSE << >>) \o
      (IF em.AgentEIN # << >>
         THEN << Put("AgentForEIN", f, cleanDigits(em.AgentEIN, 9)) >>
         ELSE << >>) \o
      << Put("EmployerName", f, padAlpha(em.Name, 57)),
         Put("LocationAddress", f, padAlpha(em.AddressLine1, 22)),
         Put("DeliveryAddress", f, padAlpha(em.AddressLine2, 22)),
         Put("City", f, padAlpha(em.City, 22)),
         Put("StateAbbrev", f, padAlpha(em.State, 2)),
         Put("ZIPCode", f, padNumeric(em.ZIP, 5)),
         Put("ZIPExtension", f, padNumeric(em.ZIPExtension, 4)),
         Put("CorrectEmploymentCode", f, defaultStr(em.EmploymentCode, <<"R">>)),
         Put("KindOfEmployer", f, defaultStr(em.KindOfEmployer, <<"N">>)) >> \o
      (IF em.ContactName # << >>
         THEN << Put("ContactName", f, padAlpha(em.ContactName, 27)) >>
         ELSE << >>) \o
      (IF em.ContactPhone # << >>
         THEN << Put("ContactPhone", f, padNumeric(em.ContactPhone, 15)) >>
         ELSE << >>) \o
      (IF em.ContactEmail # << >>
         THEN << Put("ContactEmail", f, padEmail(em.ContactEmail, 40)) >>
         ELSE << >>)

\* func (g *Generator) buildRCE(s *domain.Submission) string
buildRCE(g, s) == Run(newBuf, rcePuts(g, s))

\* rcwPuts putting the two SSNs of a correction in each other's field.
rcwPutsSsnSwapped(g, e) ==
  LET f     == g.yspec.RCW
      a     == e.Amounts
      box13 == e.Box13
  IN  << Put("RecordIdentifier", f, <<"R", "C", "W">>),
         Put("OrigSSN", f, cleanDigits(e.SSN, 9)) >> \o
      (IF e.OriginalSSN # << >>
         THEN << Put("OrigSSN", f, cleanDigits(e.SSN, 9)),
                 Put("CorrectSSN", f, cleanDigits(e.OriginalSSN, 9)) >>
         ELSE << >>) \o
      (IF e.OriginalFirstName # << >> \/ e.OriginalLastName # << >>
         THEN << Put("OrigFirstName", f, padAlpha(e.OriginalFirstName, 15)),
                 Put("OrigMiddleName", f, padAlpha(e.OriginalMiddleName, 15)),
                 Put("OrigLastName", f, padAlpha(e.OriginalLastName, 20)),
                 Put("CorrectFirstName", f, padAlpha(e.FirstName, 15)),
                 Put("CorrectMiddleName", f, padAlpha(e.MiddleName, 15)),
                 Put("CorrectLastName", f, padAlpha(e.LastName, 20)) >>
         ELSE << Put("CorrectFirstName", f, padAlpha(e.FirstName, 15)),
                 Put("CorrectMiddleName", f, padAlpha(e.MiddleName, 15)),
                 Put("CorrectLastName", f, padAlpha(e.LastName, 20)) >>) \o
      << Put("LocationAddress", f, padAlpha(e.AddressLine1, 22)),
         Put("DeliveryAddress", f, padAlpha(e.AddressLine2, 22)),
         Put("City", f, padAlpha(e.City, 22)),
         Put("StateAbbrev", f, padAlpha(e.State, 2)),
         Put("ZIPCode", f, padNumeric(e.ZIP, 5)),
         Put("ZIPExtension", f, padNumeric(e.ZIPExtension, 4)),
         Put("OrigWagesTipsOther", f, money11(a.OriginalWagesTipsOther)),
         Put("CorrectWagesTipsOther", f, money11(a.CorrectWagesTipsOther)),
         Put("OrigFedIncomeTax", f, money11(a.OriginalFederalIncomeTax)),
         Put("CorrectFedIncomeTax", f, money11(a.CorrectFederalIncomeTax)),
         Put("OrigSSWages", f, money11(a.OriginalSocialSecurityWages)),
         Put("CorrectSSWages", f, money11(a.CorrectSocialSecurityWages)),
         Put("OrigSSTax", f, money11(a.OriginalSocialSecurityTax)),
         Put("CorrectSSTax", f, money11(a.CorrectSocialSecurityTax)),
         Put("OrigMedicareWages", f, money11(a.OriginalMedicareWages)),
         Put("CorrectMedicareWages", f, money11(a.CorrectMedicareWages)),
         Put("OrigMedicareTax", f, money11(a.OriginalMedicareTax)),
         Put("CorrectMedicareTax", f, money11(a.CorrectMedicareTax)),
         Put("OrigSSTips", f, money11(a.OriginalSocialSecurityTips)),
         Put("CorrectSSTips", f, money11(a.CorrectSocialSecurityTips)) >> \o
      putMoney11Pair(f, "OrigDependentCare", "CorrectDependentCare",
                     a.OriginalDependentCare, a.CorrectDependentCare) \o
      putMoney11Pair(f, "OrigCode401k", "CorrectCode401k",
                     a.OriginalCode401k, a.CorrectCode401k) \o
      putMoney11Pair(f, "OrigCode403b", "CorrectCode403b",
                     a.OriginalCode403b, a.CorrectCode403b) \o
      putMoney11Pair(f, "OrigCode457bGovt", "CorrectCode457bGovt",
                     a.OriginalCode457bGovt, a.CorrectCode457bGovt) \o
      putMoney11Pair(f, "OrigCodeW_HSA", "CorrectCodeW_HSA",
                     a.OriginalCodeW_HSA, a.CorrectCodeW_HSA) \o
      putMoney11Pair(f, "OrigCodeAA_Roth401k", "CorrectCodeAA_Roth401k",
                     a.OriginalCodeAA_Roth401k, a.CorrectCodeAA_Roth401k) \o
      putMoney11Pair(f, "OrigCodeBB_Roth403b", "CorrectCodeBB_Roth403b",
                     a.OriginalCodeBB_Roth403b, a.CorrectCodeBB_Roth403b) \o
      putMoney11Pair(f, "OrigCodeDD_EmpHealth", "CorrectCodeDD_EmpHealth",
                     a.OriginalCodeDD_EmpHealth, a.CorrectCodeDD_EmpHealth) \o
      putMoney11Pair(f, "OrigNonqualPlan457", "CorrectNonqualPlan457",
                     a.OriginalNonqualPlan457, a.CorrectNonqualPlan457) \o
      putMoney11Pair(f, "OrigNonqualNotSection457", "CorrectNonqualNotSection457",
                     a.OriginalNonqualNotSection457, a.CorrectNonqualNotSection457) \o
      putBox13(f, "OrigStatutoryEmployee", "CorrectStatutoryEmployee",
               box13.OrigStatutoryEmployee, box13.CorrectStatutoryEmployee) \o
      putBox13(f, "OrigRetirementPlan", "CorrectRetirementPlan",
               box13.OrigRetirementPlan, box13.CorrectRetirementPlan) \o
      putBox13(f, "OrigThirdPartySickPay", "CorrectThirdPartySickPay",
               box13.OrigThirdPartySickPay, box13.CorrectThirdPartySickPay)

rcwPuts(g, e) ==
  LET f     == g.yspec.RCW
      a     == e.Amounts
      box13 == e.Box13
  IN  << Put("RecordIdentifier", f, <<"R", "C", "W">>),
         Put("OrigSSN", f, cleanDigits(e.SSN, 9)) >> \o
      (IF e.OriginalSSN # << >>
         THEN << Put("OrigSSN", f, cleanDigits(e.OriginalSSN, 9)),
                 Put("CorrectSSN", f, cleanDigits(e.SSN, 9)) >>
         ELSE << >>) \o
      (IF e.OriginalFirstName # << >> \/ e.OriginalLastName # << >>
         THEN << Put("OrigFirstName", f, padAlpha(e.OriginalFirstName, 15)),
                 Put("OrigMiddleName", f, padAlpha(e.OriginalMiddleName, 15)),
                 Put("OrigLastName", f, padAlpha(e.OriginalLastName, 20)),
                 Put("CorrectFirstName", f, padAlpha(e.FirstName, 15)),
                 Put("CorrectMiddleName", f, padAlpha(e.MiddleName, 15)),
                 Put("CorrectLastName", f, padAlpha(e.LastName, 20)) >>
         ELSE << Put("CorrectFirstName", f, padAlpha(e.FirstName, 15)),
                 Put("CorrectMiddleName", f, padAlpha(e.MiddleName, 15)),
                 Put("CorrectLastName", f, padAlpha(e.LastName, 20)) >>) \o
      << Put("LocationAddress", f, padAlpha(e.AddressLine1, 22)),
         Put("DeliveryAddress", f, padAlpha(e.AddressLine2, 22)),
         Put("City", f, padAlpha(e.City, 22)),
         Put("StateAbbrev", f, padAlpha(e.State, 2)),
         Put("ZIPCode", f, padNumeric(e.ZIP, 5)),
         Put("ZIPExtension", f, padNumeric(e.ZIPExtension, 4)),
         Put("OrigWagesTipsOther", f, money11(a.OriginalWagesTipsOther)),
         Put("CorrectWagesTipsOther", f, money11(a.CorrectWagesTipsOther)),
         Put("OrigFedIncomeTax", f, money11(a.OriginalFederalIncomeTax)),
         Put("CorrectFedIncomeTax", f, money11(a.CorrectFederalIncomeTax)),
         Put("OrigSSWages", f, money11(a.OriginalSocialSecurityWages)),
         Put("CorrectSSWages", f, money11(a.CorrectSocialSecurityWages)),
         Put("OrigSSTax", f, money11(a.OriginalSocialSecurityTax)),
         Put("CorrectSSTax", f, money11(a.CorrectSocialSecurityTax)),
         Put("OrigMedicareWages", f, money11(a.OriginalMedicareWages)),
         Put("CorrectMedicareWages", f, money11(a.CorrectMedicareWages)),
         Put("OrigMedicareTax", f, money11(a.OriginalMedicareTax)),
         Put("CorrectMedicareTax", f, money11(a.CorrectMedicareTax)),
         Put("OrigSSTips", f, money11(a.OriginalSocialSecurityTips)),
         Put("CorrectSSTips", f, money11(a.CorrectSocialSecurityTips)) >> \o
      putMoney11Pair(f, "OrigDependentCare", "CorrectDependentCare",
                     a.OriginalDependentCare, a.CorrectDependentCare) \o
      putMoney11Pair(f, "OrigCode401k", "CorrectCode401k",
                     a.OriginalCode401k, a.CorrectCode401k) \o
      putMoney11Pair(f, "OrigCode403b", "CorrectCode403b",
                     a.OriginalCode403b, a.CorrectCode403b) \o
      putMoney11Pair(f, "OrigCode457bGovt", "CorrectCode457bGovt",
                     a.OriginalCode457bGovt, a.CorrectCode457bGovt) \o
      putMoney11Pair(f, "OrigCodeW_HSA", "CorrectCodeW_HSA",
                     a.OriginalCodeW_HSA, a.CorrectCodeW_HSA) \o
      putMoney11Pair(f, "OrigCodeAA_Roth401k", "CorrectCodeAA_Roth401k",
                     a.OriginalCodeAA_Roth401k, a.CorrectCodeAA_Roth401k) \o
      putMoney11Pair(f, "OrigCodeBB_Roth403b", "CorrectCodeBB_Roth403b",
                     a.OriginalCodeBB_Roth403b, a.CorrectCodeBB_Roth403b) \o
      putMoney11Pair(f, "OrigCodeDD_EmpHealth", "CorrectCodeDD_EmpHealth",
                     a.OriginalCodeDD_EmpHealth, a.CorrectCodeDD_EmpHealth) \o
      putMoney11Pair(f, "OrigNonqualPlan457", "CorrectNonqualPlan457",
                     a.OriginalNonqualPlan457, a.CorrectNonqualPlan457) \o
      putMoney11Pair(f, "OrigNonqualNotSection457", "CorrectNonqualNotSection457",
                     a.OriginalNonqualNotSection457, a.CorrectNonqualNotSection457) \o
      putBox13(f, "OrigStatutoryEmployee", "CorrectStatutoryEmployee",
               box13.OrigStatutoryEmployee, box13.CorrectStatutoryEmployee) \o
      putBox13(f, "OrigRetirementPlan", "CorrectRetirementPlan",
               box13.OrigRetirementPlan, box13.CorrectRetirementPlan) \o
      putBox13(f, "OrigThirdPartySickPay", "CorrectThirdPartySickPay",
               box13.OrigThirdPartySickPay, box13.CorrectThirdPartySickPay)

\* func (g *Generator) buildRCW(e *domain.EmployeeRecord) string
buildRCW(g, e) == Run(newBuf, rcwPuts(g, e))

\* rcoPuts writing the Box 12 Code II pair as zeros under the TY2024 layout.
rcoPutsCodeII(g, e) ==
  LET f == g.yspec.RCO
      a == e.Amounts
  IN  << Put("RecordIdentifier", f, <<"R", "C", "O">>) >> \o
      putMoney11Pair(f, "OrigAllocatedTips", "CorrectAllocatedTips",
                     a.OriginalAllocatedTips, a.CorrectAllocatedTips) \o
      (IF g.yspec.TaxYear = 2024
         THEN << Put("OrigMedicaidWaiver", f, money11(Zero64)),
                 Put("CorrectMedicaidWaiver", f, money11(Zero64)) >>
         ELSE << >>)

rcoPuts(g, e) ==
  LET f == g.yspec.RCO
      a == e.Amounts
  IN  << Put("RecordIdentifier", f, <<"R", "C", "O">>) >> \o
      putMoney11Pair(f, "OrigAllocatedTips", "CorrectAllocatedTips",
                     a.OriginalAllocatedTips, a.CorrectAllocatedTips)

\* func (g *Generator) buildRCO(e *domain.EmployeeRecord) string
buildRCO(g, e) == Run(newBuf, rcoPuts(g, e))

rcsPuts(g, e) ==
  LET f  == g.yspec.RCS
      a  == e.Amounts
      sc == IF e.CorrectStateCode = << >> THEN e.OriginalStateCode ELSE e.CorrectStateCode
  IN  << Put("RecordIdentifier", f, <<"R", "C", "S">>),
         Put("StateCode", f, padNumeric(statePostalToNumeric(sc), 2)),
         Put("CorrectSSN", f, cleanDigits(e.SSN, 9)),
         Put("CorrectFirstName", f, padAlpha(e.FirstName, 15)),
         Put("CorrectMiddleName", f, padAlpha(e.MiddleName, 15)),
         Put("CorrectLastName", f, padAlpha(e.LastName, 20)),
         Put("StateCode2", f, padNumeric(statePostalToNumeric(sc), 2)) >> \o
      putMoney11Pair(f, "OrigStateWages", "CorrectStateWages",
                     a.OriginalStateWages, a.CorrectStateWages) \o
      putMoney11Pair(f, "OrigStateIncomeTax", "CorrectStateIncomeTax",
                     a.OriginalStateIncomeTax, a.CorrectStateIncomeTax)

\* func (g *Generator) buildRCS(e *domain.EmployeeRecord) string
buildRCS(g, e) == Run(newBuf, rcsPuts(g, e))

rctPuts(g, t) ==
  LET f == g.yspec.RCT
  IN  << Put("RecordIdentifier", f, <<"R", "C", "T">>),
         Put("TotalRCWRecords", f, SprintfPad0(7, Zero64)),
         Put("OrigTotalWagesTips", f, money15(t.origWages)),
         Put("CorrectTotalWagesTips", f, money15(t.corrWages)),
         Put("OrigTotalFedIncomeTax", f, money15(t.origFed)),
         Put("CorrectTotalFedIncomeTax", f, money15(t.corrFed)),
         Put("OrigTotalSSWages", f, money15(t.origSS)),
         Put("CorrectTotalSSWages", f, money15(t.corrSS)),
         Put("OrigTotalSSTax", f, money15(t.origSSTax)),
         Put("CorrectTotalSSTax", f, money15(t.corrSSTax)),
         Put("OrigTotalMedicareWages", f, money15(t.origMed)),
         Put("CorrectTotalMedicareWages", f, money15(t.corrMed)),
         Put("OrigTotalMedicareTax", f, money15(t.origMedTax)),
         Put("CorrectTotalMedicareTax", f, money15(t.corrMedTax)),
         Put("OrigTotalSSTips", f, money15(t.origSSTips)),
         Put("CorrectTotalSSTips", f, money15(t.corrSSTips)) >> \o
      putMoney15Pair(f, "OrigTotalDependentCare", "CorrectTotalDependentCare",
                     t.origDepCare, t.corrDepCare) \o
      putMoney15Pair(f, "OrigTotalCode401k", "CorrectTotalCode401k", t.origD, t.corrD) \o
      putMoney15Pair(f, "OrigTotalCode403b", "CorrectTotalCode403b", t.origE, t.corrE) \o
      putMoney15Pair(f, "OrigTotalCode457bGovt", "CorrectTotalCode457bGovt",
                     t.origG, t.corrG) \o
      putMoney15Pair(f, "OrigTotalCodeW_HSA", "CorrectTotalCodeW_HSA", t.origW, t.corrW) \o
      putMoney15Pair(f, "OrigTotalNonqualPlan457", "CorrectTotalNonqualPlan457",
                     t.origNQ457, t.corrNQ457) \o
      putMoney15Pair(f, "OrigTotalNonqualNotSection457", "CorrectTotalNonqualNotSection457",
                     t.origNQNot457, t.corrNQNot457) \o
      putMoney15Pair(f, "OrigTotalCodeAA_Roth401k", "CorrectTotalCodeAA_Roth401k",
                     t.origAA, t.corrAA) \o
      putMoney15Pair(f, "OrigTotalCodeBB_Roth403b", "CorrectTotalCodeBB_Roth403b",
                     t.origBB, t.corrBB) \o
      putMoney15Pair(f, "OrigTotalCodeDD_EmpHealth", "CorrectTotalCodeDD_EmpHealth",
                     t.origDD, t.corrDD)

\* func (g *Generator) buildRCT(origWages, corrWages, ... int64) string
buildRCT(g, t) == Run(newBuf, rctPuts(g, t))

\* buildRCF putting its count under a name the RCF table does not hold.
rcfPutsMisnamed(g, count) ==
  LET f == g.yspec.RCF
  IN  << Put("RecordIdentifier", f, <<"R", "C", "F">>),
         Put("TotalRCWRecord", f, SprintfPad0(7, Int64(count))) >>

\* rcfPuts writing the same placeholder buildRCT writes.
rcfPutsPlaceholder(g, count) ==
  LET f == g.yspec.RCF
  IN  << Put("RecordIdentifier", f, <<"R", "C", "F">>),
         Put("TotalRCWRecords", f, SprintfPad0(7, Zero64)) >>

rcfPuts(g, count) ==
  LET f == g.yspec.RCF
  IN  << Put("RecordIdentifier", f, <<"R", "C", "F">>),
         Put("TotalRCWRecords", f, SprintfPad0(7, Int64(count))) >>

\* func (g *Generator) buildRCF(count int) string
buildRCF(g, count) == Run(newBuf, rcfPuts(g, count))

(***************************************************************************)
(* Generate's accumulators.                                                *)
(***************************************************************************)

\* var ( origWages, corrWages, ... int64 ): all zero
ZeroTotals ==
  [ origWages |-> Zero64, corrWages |-> Zero64,
    origFed |-> Zero64, corrFed |-> Zero64,
    origSS |-> Zero64, corrSS |-> Zero64,
    origSSTax |-> Zero64, corrSSTax |-> Zero64,
    origMed |-> Zero64, corrMed |-> Zero64,
    origMedTax |-> Zero64, corrMedTax |-> Zero64,
    origSSTips |-> Zero64, corrSSTips |-> Zero64,
    origDepCare |-> Zero64, corrDepCare |-> Zero64,
    origNQ457 |-> Zero64, corrNQ457 |-> Zero64,
    origNQNot457 |-> Zero64, corrNQNot457 |-> Zero64,
    origD |-> Zero64, corrD |-> Zero64,
    origE |-> Zero64, corrE |-> Zero64,
    origG |-> Zero64, corrG |-> Zero64,
    origW |-> Zero64, corrW |-> Zero64,
    origAA |-> Zero64, corrAA |-> Zero64,
    origBB |-> Zero64, corrBB |-> Zero64,
    origDD |-> Zero64, corrDD |-> Zero64 ]

\* The += lines of the employee loop.
Accumulate(t, e) ==
  [ origWages |-> Add64(t.origWages, e.Amounts.OriginalWagesTipsOther),
    corrWages |-> Add64(t.corrWages, e.Amounts.CorrectWagesTipsOther),
    origFed |-> Add64(t.origFed, e.Amounts.OriginalFederalIncomeTax),
    corrFed |-> Add64(t.corrFed, e.Amounts.CorrectFederalIncomeTax),
    origSS |-> Add64(t.origSS, e.Amounts.OriginalSocialSecurityWages),
    corrSS |-> Add64(t.corrSS, e.Amounts.CorrectSocialSecurityWages),
    origSSTax |-> Add64(t.origSSTax, e.Amounts.OriginalSocialSecurityTax),
    corrSSTax |-> Add64(t.corrSSTax, e.Amounts.CorrectSocialSecurityTax),
    origMed |-> Add64(t.origMed, e.Amounts.OriginalMedicareWages),
    corrMed |-> Add64(t.corrMed, e.Amounts.CorrectMedicareWages),
    origMedTax |-> Add64(t.origMedTax, e.Amounts.OriginalMedicareTax),
    corrMedTax |-> Add64(t.corrMedTax, e.Amounts.CorrectMedicareTax),
    origSSTips |-> Add64(t.origSSTips, e.Amounts.OriginalSocialSecurityTips),
    corrSSTips |-> Add64(t.corrSSTips, e.Amounts.CorrectSocialSecurityTips),
    origDepCare |-> Add64(t.origDepCare, e.Amounts.OriginalDependentCare),
    corrDepCare |-> Add64(t.corrDepCare, e.Amounts.CorrectDependentCare),
    origNQ457 |-> Add64(t.origNQ457, e.Amounts.OriginalNonqualPlan457),
    corrNQ457 |-> Add64(t.corrNQ457, e.Amounts.CorrectNonqualPlan457),
    origNQNot457 |-> Add64(t.origNQNot457, e.Amounts.OriginalNonqualNotSection457),
    corrNQNot457 |-> Add64(t.corrNQNot457, e.Amounts.CorrectNonqualNotSection457),
    origD |-> Add64(t.origD, e.Amounts.OriginalCode401k),
    corrD |-> Add64(t.corrD, e.Amounts.CorrectCode401k),
    origE |-> Add64(t.origE, e.Amounts.OriginalCode403b),
    corrE |-> Add64(t.corrE, e.Amounts.CorrectCode403b),
    origG |-> Add64(t.origG, e.Amounts.OriginalCode457bGovt),
    corrG |-> Add64(t.corrG, e.Amounts.CorrectCode457bGovt),
    origW |-> Add64(t.origW, e.Amounts.OriginalCodeW_HSA),
    corrW |-> Add64(t.corrW, e.Amounts.CorrectCodeW_HSA),
    origAA |-> Add64(t.origAA, e.Amounts.OriginalCodeAA_Roth401k),
    corrAA |-> Add64(t.corrAA, e.Amounts.CorrectCodeAA_Roth401k),
    origBB |-> Add64(t.origBB, e.Amounts.OriginalCodeBB_Roth403b),
    corrBB |-> Add64(t.corrBB, e.Amounts.CorrectCodeBB_Roth403b),
    origDD |-> Add64(t.origDD, e.Amounts.OriginalCodeDD_EmpHealth),
    corrDD |-> Add64(t.corrDD, e.Amounts.CorrectCodeDD_EmpHealth) ]

(***************************************************************************)
(* Inputs: the submissions the callers hand to Generate.  Amounts come     *)
(* from parseCents, which accepts any int64, negative ones included.       *)
(***************************************************************************)

\* domain.MonetaryAmounts, all zero
ZeroAmounts ==
  [ OriginalWagesTipsOther |-> Zero64, CorrectWagesTipsOther |-> Zero64,
    OriginalFederalIncomeTax |-> Zero64, CorrectFederalIncomeTax |-> Zero64,
    OriginalSocialSecurityWages |-> Zero64, CorrectSocialSecurityWages |-> Zero64,
    OriginalSocialSecurityTax |-> Zero64, CorrectSocialSecurityTax |-> Zero64,
    OriginalMedicareWages |-> Zero64, CorrectMedicareWages |-> Zero64,
    OriginalMedicareTax |-> Zero64, CorrectMedicareTax |-> Zero64,
    OriginalSocialSecurityTips |-> Zero64, CorrectSocialSecurityTips |-> Zero64,
    OriginalAllocatedTips |-> Zero64, CorrectAllocatedTips |-> Zero64,
    OriginalDependentCare |-> Zero64, CorrectDependentCare |-> Zero64,
    OriginalNonqualPlan457 |-> Zero64, CorrectNonqualPlan457 |-> Zero64,
    OriginalNonqualNotSection457 |-> Zero64, CorrectNonqualNotSection457 |-> Zero64,
    OriginalCode401k |-> Zero64, CorrectCode401k |-> Zero64,
    OriginalCode403b |-> Zero64, CorrectCode403b |-> Zero64,
    OriginalCode457bGovt |-> Zero64, CorrectCode457bGovt |-> Zero64,
    OriginalCodeW_HSA |-> Zero64, CorrectCodeW_HSA |-> Zero64,
    OriginalCodeAA_Roth401k |-> Zero64, CorrectCodeAA_Roth401k |-> Zero64,
    OriginalCodeBB_Roth403b |-> Zero64, CorrectCodeBB_Roth403b |-> Zero64,
    OriginalCodeDD_EmpHealth |-> Zero64, CorrectCodeDD_EmpHealth |-> Zero64,
    OriginalStateWages |-> Zero64, CorrectStateWages |-> Zero64,
    OriginalStateIncomeTax |-> Zero64, CorrectStateIncomeTax |-> Zero64,
    OriginalLocalWages |-> Zero64, CorrectLocalWages |-> Zero64,
    OriginalLocalIncomeTax |-> Zero64, CorrectLocalIncomeTax |-> Zero64 ]

\* domain.Box13Flags, all nil
NoBox13 ==
  [ OrigStatutoryEmployee |-> << >>, CorrectStatutoryEmployee |-> << >>,
    OrigRetirementPlan |-> << >>, CorrectRetirementPlan |-> << >>,
    OrigThirdPartySickPay |-> << >>, CorrectThirdPartySickPay |-> << >> ]

\* domain.EmployeeRecord, the zero value
ZeroEmployee ==
  [ SSN |-> << >>, OriginalSSN |-> << >>,
    FirstName |-> << >>, MiddleName |-> << >>, LastName |-> << >>, Suffix |-> << >>,
    OriginalFirstName |-> << >>, OriginalMiddleName |-> << >>,
    OriginalLastName |-> << >>, OriginalSuffix |-> << >>,
    AddressLine1 |-> << >>, AddressLine2 |-> << >>, City |-> << >>, State |-> << >>,
    ZIP |-> << >>, ZIPExtension |-> << >>,
    Amounts |-> ZeroAmounts, Box13 |-> NoBox13,
    OriginalStateCode |-> << >>, CorrectStateCode |-> << >>,
    OriginalStateIDNumber |-> << >>, CorrectStateIDNumber |-> << >>,
    OriginalLocalityName |-> << >>, CorrectLocalityName |-> << >> ]

\* Boxes 1-6 corrected, nothing optional (the test suite's minimal employee).
EmpPlain ==
  [ ZeroEmployee EXCEPT
      !.SSN = <<"9", "8", "7", "6", "5", "4", "3", "2", "1">>,
      !.FirstName = <<"J", "O", "H", "N">>,
      !.LastName = <<"S", "M", "I", "T", "H">>,
      !.Amounts.OriginalWagesTipsOther = [neg |-> FALSE, mag |-> <<5, 0, 0, 0, 0, 0, 0>>],
      !.Amounts.CorrectWagesTipsOther = [neg |-> FALSE, mag |-> <<5, 1, 0, 0, 0, 0, 0>>],
      !.Amounts.OriginalFederalIncomeTax = [neg |-> FALSE, mag |-> <<8, 0, 0, 0, 0, 0>>],
      !.Amounts.CorrectFederalIncomeTax = [neg |-> FALSE, mag |-> <<8, 2, 0, 0, 0, 0>>],
      !.Amounts.OriginalSocialSecurityWages = [neg |-> FALSE, mag |-> <<5, 0, 0, 0, 0, 0, 0>>],
      !.Amounts.CorrectSocialSecurityWages = [neg |-> FALSE, mag |-> <<5, 1, 0, 0, 0, 0, 0>>],
      !.Amounts.OriginalSocialSecurityTax = [neg |-> FALSE, mag |-> <<3, 1, 0, 0, 0, 0>>],
      !.Amounts.CorrectSocialSecurityTax = [neg |-> FALSE, mag |-> <<3, 1, 6, 2, 0, 0>>],
      !.Amounts.OriginalMedicareWages = [neg |-> FALSE, mag |-> <<5, 0, 0, 0, 0, 0, 0>>],
      !.Amounts.CorrectMedicareWages = [neg |-> FALSE, mag |-> <<5, 1, 0, 0, 0, 0, 0>>],
      !.Amounts.OriginalMedicareTax = [neg |-> FALSE, mag |-> <<7, 2, 5, 0, 0>>],
      !.Amounts.CorrectMedicareTax = [neg |-> FALSE, mag |-> <<7, 3, 9, 5, 0>>] ]

\* Box 8 corrected: an RCO follows the RCW.
EmpTips ==
  [ EmpPlain EXCEPT
      !.Amounts.OriginalAllocatedTips = [neg |-> FALSE, mag |-> <<1, 2, 3, 4, 5, 6>>],
      !.Amounts.CorrectAllocatedTips = [neg |-> FALSE, mag |-> <<1, 3, 0, 0, 0, 0>>] ]

\* State data and Box 10: an RCS follows the RCW.
EmpState ==
  [ ZeroEmployee EXCEPT
      !.SSN = <<"1", "1", "1", "-", "2", "2", "-", "3", "3", "3", "3">>,
      !.FirstName = <<" ", "a", "l", "i", "c", "e", " ">>,
      !.MiddleName = <<"q">>,
      !.LastName = <<"J", "o", "n", "e", "s">>,
      !.AddressLine1 = <<"1", " ", "E", "l", "m", " ", "S", "t">>,
      !.City = <<"P", "e", "o", "r", "i", "a">>,
      !.State = <<"i", "l">>,
      !.ZIP = <<"6", "1", "6", "0", "1">>,
      !.Amounts.OriginalWagesTipsOther = [neg |-> FALSE, mag |-> <<3, 0, 0, 0, 0, 0, 0>>],
      !.Amounts.CorrectWagesTipsOther = [neg |-> FALSE, mag |-> <<3, 1, 0, 0, 0, 0, 0>>],
      !.Amounts.OriginalSocialSecurityTips = Zero64,
      !.Amounts.CorrectSocialSecurityTips = [neg |-> FALSE, mag |-> <<4, 5, 0, 0>>],
      !.Amounts.OriginalDependentCare = Zero64,
      !.Amounts.CorrectDependentCare = [neg |-> FALSE, mag |-> <<2, 5, 0, 0, 0, 0>>],
      !.Amounts.OriginalStateWages = [neg |-> FALSE, mag |-> <<3, 0, 0, 0, 0, 0, 0>>],
      !.Amounts.CorrectStateWages = [neg |-> FALSE, mag |-> <<3, 1, 0, 0, 0, 0, 0>>],
      !.CorrectStateCode = <<"i", "l">> ]

\* SSN, name and Box 13 corrections, Box 8 and state tax: RCO and RCS.
EmpBoth ==
  [ ZeroEmployee EXCEPT
      !.SSN = <<"2", "2", "2", "3", "3", "4", "4", "4", "4">>,
      !.OriginalSSN = <<"2", "2", "2", "3", "3", "4", "4", "4", "5">>,
      !.FirstName = <<"J", "O", "H", "N">>,
      !.LastName = <<"S", "M", "I", "T", "H">>,
      !.OriginalFirstName = <<"J", "O", "N">>,
      !.OriginalLastName = <<"S", "M", "Y", "T", "H">>,
      !.Box13.OrigStatutoryEmployee = <<FALSE>>,
      !.Box13.CorrectStatutoryEmployee = <<TRUE>>,
      !.Box13.OrigRetirementPlan = <<TRUE>>,
      !.Amounts.OriginalCode401k = Zero64,
      !.Amounts.CorrectCode401k = [neg |-> FALSE, mag |-> <<2, 5, 0, 0, 0, 0>>],
      !.Amounts.OriginalAllocatedTips = [neg |-> FALSE, mag |-> <<5, 0, 0>>],
      !.Amounts.CorrectStateIncomeTax = [neg |-> FALSE, mag |-> <<1, 2, 3, 4, 5>>] ]

\* Negative amounts, as parseCents yields for a leading minus sign.
EmpNeg ==
  [ ZeroEmployee EXCEPT
      !.SSN = <<"3", "3", "3", "4", "4", "5", "5", "5", "5">>,
      !.LastName = <<"N", "E", "G">>,
      !.Amounts.OriginalWagesTipsOther = [neg |-> TRUE, mag |-> <<5, 0, 0>>],
      !.Amounts.CorrectWagesTipsOther = [neg |-> FALSE, mag |-> <<7, 0, 0>>],
      !.Amounts.CorrectSocialSecurityTips = [neg |-> TRUE, mag |-> <<1>>],
      !.Amounts.OriginalDependentCare = [neg |-> TRUE, mag |-> <<5>>],
      !.Amounts.OriginalAllocatedTips = [neg |-> TRUE, mag |-> <<2, 0, 0>>],
      !.OriginalStateCode = <<"Z", "Z">> ]

\* Amounts of twelve digits and more.
EmpBig ==
  [ ZeroEmployee EXCEPT
      !.SSN = <<"4", "4", "4", "5", "5", "6", "6", "6", "6">>,
      !.LastName = <<"B", "I", "G">>,
      !.Amounts.OriginalWagesTipsOther = [neg |-> FALSE, mag |-> <<7>>],
      !.Amounts.CorrectFederalIncomeTax = [neg |-> FALSE, mag |-> <<1, 0, 0, 0, 0, 0, 0, 0, 0, 0, 0, 0>>],
      !.Amounts.OriginalSocialSecurityWages = [neg |-> FALSE, mag |-> <<9, 2, 2, 3, 3, 7, 2, 0, 3, 6, 8, 5, 4, 7, 7, 5, 8, 0, 7>>],
      !.Amounts.OriginalCode403b = [neg |-> FALSE, mag |-> <<1, 2, 3, 4, 5, 6, 7, 8, 9, 0, 1, 2>>],
      !.Amounts.OriginalAllocatedTips = [neg |-> FALSE, mag |-> <<1, 2, 3, 4, 5, 6, 7, 8, 9, 0, 1, 2>>],
      !.Amounts.CorrectAllocatedTips = [neg |-> FALSE, mag |-> <<9, 9, 9, 9, 9, 9, 9, 9, 9, 9, 9>>] ]

\* Locality, state ID and local amounts only: no state code, wages or tax.
\* The middle name alone is corrected.
EmpLocal ==
  [ ZeroEmployee EXCEPT
      !.SSN = <<"5", "5", "5", "6", "6", "7", "7", "7", "7">>,
      !.FirstName = <<"L", "E", "E">>,
      !.MiddleName = <<"R">>,
      !.LastName = <<"L", "O", "C", "A", "L">>,
      !.OriginalMiddleName = <<"Q">>,
      !.OriginalStateIDNumber = <<"1", "2", "-", "3", "4", "5">>,
      !.CorrectStateIDNumber = <<"1", "2", "-", "3", "4", "6">>,
      !.OriginalLocalityName = <<"C", "O", "O", "K">>,
      !.CorrectLocalityName = <<"L", "A", "K", "E">>,
      !.Amounts.OriginalCodeW_HSA = [neg |-> FALSE, mag |-> <<3, 0, 0>>],
      !.Amounts.CorrectCodeW_HSA = [neg |-> FALSE, mag |-> <<3, 5, 0>>],
      !.Amounts.OriginalLocalWages = [neg |-> FALSE, mag |-> <<1, 0, 0>>],
      !.Amounts.CorrectLocalWages = [neg |-> FALSE, mag |-> <<2, 0, 0>>],
      !.Amounts.OriginalLocalIncomeTax = [neg |-> FALSE, mag |-> <<1, 0>>],
      !.Amounts.CorrectLocalIncomeTax = [neg |-> FALSE, mag |-> <<2, 0>>] ]

EmployeeSamples == {EmpPlain, EmpTips, EmpState, EmpBoth, EmpNeg, EmpBig, EmpLocal}

\* Sequences of at most n employees.
RECURSIVE EmployeeLists(_)
EmployeeLists(n) ==
  IF n = 0
    THEN {<< >>}
    ELSE LET shorter == EmployeeLists(n - 1)
         IN  shorter \cup {Append(l, e) : l \in {x \in shorter : Len(x) = n - 1},
                                          e \in EmployeeSamples}

\* domain.SubmitterInfo of the test suite's minimal submission
SubmitterA ==
  [ BSOUID |-> <<"T", "E", "S", "T", "U", "S", "E", "R">>,
    ContactName |-> <<"J", "A", "N", "E", " ", "D", "O", "E">>,
    ContactPhone |-> <<"8", "0", "0", "5", "5", "5", "1", "2", "3", "4">>,
    ContactEmail |-> <<"j", "a", "n", "e", "@", "e", "x", "a", "m", "p", "l", "e", ".", "c", "o", "m">>,
    PreparerCode |-> << >>,
    ResubIndicator |-> << >>,
    ResubWFID |-> << >> ]

\* a resubmission by an accounting firm
SubmitterB ==
  [ BSOUID |-> <<"a", "b", "c", "1", "2", "3">>,
    ContactName |-> <<" ", " ", "B", "o", "b", " ", "O", "'", "N", "e", "i", "l", " ">>,
    ContactPhone |-> <<"(", "8", "0", "0", ")", " ", "5", "5", "5", "-", "1", "2", "3", "4">>,
    ContactEmail |-> <<" ", "B", "o", "b", "@", "E", "x", "a", "m", "p", "l", "e", ".", "c", "o", "m">>,
    PreparerCode |-> <<"A">>,
    ResubIndicator |-> <<"1">>,
    ResubWFID |-> <<"w", "f", "1", "2", "3", "4">> ]

\* domain.EmployerRecord of the test suite's minimal submission, tax year 2024
EmployerA ==
  [ EIN |-> <<"1", "2", "3", "4", "5", "6", "7", "8", "9">>,
    OriginalEIN |-> << >>,
    Name |-> <<"A", "C", "M", "E", " ", "C", "O", "R", "P">>,
    AddressLine1 |-> <<"1", "0", "0", " ", "M", "A", "I", "N", " ", "S", "T">>,
    AddressLine2 |-> <<"S", "U", "I", "T", "E", " ", "2", "0", "0">>,
    City |-> <<"S", "P", "R", "I", "N", "G", "F", "I", "E", "L", "D">>,
    State |-> <<"I", "L">>,
    ZIP |-> <<"6", "2", "7", "0", "1">>,
    ZIPExtension |-> <<"1", "2", "3", "4">>,
    TaxYear |-> <<"2", "0", "2", "4">>,
    AgentIndicator |-> << >>,
    AgentEIN |-> << >>,
    EmploymentCode |-> <<"R">>,
    KindOfEmployer |-> <<"N">>,
    ContactName |-> << >>,
    ContactPhone |-> << >>,
    ContactEmail |-> << >> ]

\* an EIN correction by an agent, tax year 2021, codes left empty
EmployerB ==
  [ EIN |-> <<"1", "2", "-", "3", "4", "5", "6", "7", "8", "9">>,
    OriginalEIN |-> <<"9", "8", "-", "7", "6", "5", "4", "3", "2", "1">>,
    Name |-> <<"A", "c", "m", "e", " ", "C", "o", "r", "p">>,
    AddressLine1 |-> <<"1", "0", "0", " ", "M", "a", "i", "n", " ", "S", "t">>,
    AddressLine2 |-> << >>,
    City |-> <<"S", "p", "r", "i", "n", "g", "f", "i", "e", "l", "d">>,
    State |-> <<"i", "l">>,
    ZIP |-> <<"6", "2", "7", "0", "1", "-", "1", "2", "3", "4">>,
    ZIPExtension |-> << >>,
    TaxYear |-> <<"2", "0", "2", "1">>,
    AgentIndicator |-> <<"1">>,
    AgentEIN |-> <<"5", "5", "5", "5", "5", "5", "5", "5", "5">>,
    EmploymentCode |-> << >>,
    KindOfEmployer |-> << >>,
    ContactName |-> <<"A", "n", "n", " ", "L", "e", "e">>,
    ContactPhone |-> <<"3", "1", "2", "-", "5", "5", "5", "-", "0", "0", "0", "0">>,
    ContactEmail |-> <<"a", "n", "n", "@", "a", "c", "m", "e", ".", "i", "o">> ]

\* a tax year without a layout of its own
EmployerC ==
  [ EIN |-> <<"1", "2", "3", "4">>,
    OriginalEIN |-> << >>,
    Name |-> <<"X">>,
    AddressLine1 |-> << >>,
    AddressLine2 |-> << >>,
    City |-> << >>,
    State |-> << >>,
    ZIP |-> << >>,
    ZIPExtension |-> << >>,
    TaxYear |-> <<"2", "0", "1", "9">>,
    AgentIndicator |-> << >>,
    AgentEIN |-> << >>,
    EmploymentCode |-> <<"H">>,
    KindOfEmployer |-> <<"F">>,
    ContactName |-> << >>,
    ContactPhone |-> << >>,
    ContactEmail |-> << >> ]

\* the minimal employer with the tax year left empty
EmployerEmptyYear == [EmployerA EXCEPT !.TaxYear = << >>]

\* the minimal employer with a tax year that is not a number
EmployerBadYear == [EmployerA EXCEPT !.TaxYear = <<"2", "0", "x", "4">>]

(***************************************************************************)
(* Generate as a function of the submission: the records it assembles and  *)
(* the bytes it writes when every write succeeds.                          *)
(***************************************************************************)

\* Generate, lines 59-61: the local Generator of a submission.
LocalGenerator(sub) ==
  LET yearInt == Atoi(sub.Employer.TaxYear)
  IN  [year |-> yearInt, yspec |-> ForYear(yearInt).spec]

\* Generate, lines 89-100: the records of the employees, in order.
RECURSIVE EmployeeRecords(_, _)
EmployeeRecords(l, es) ==
  IF es = << >>
    THEN << >>
    ELSE LET e == Head(es)
         IN  <<buildRCW(l, e).data>>
               \o (IF hasRCOData(l, e) THEN <<buildRCO(l, e).data>> ELSE << >>)
               \o (IF hasRCSData(l, e) THEN <<buildRCS(l, e).data>> ELSE << >>)
               \o EmployeeRecords(l, Tail(es))

\* Generate, lines 102-135: the accumulators after the employees.
RECURSIVE TotalsOver(_, _)
TotalsOver(t, es) ==
  IF es = << >> THEN t ELSE TotalsOver(Accumulate(t, Head(es)), Tail(es))

\* Generate, lines 63-151: the records slice.
GenerateRecords(sub) ==
  LET l == LocalGenerator(sub)
  IN  <<buildRCA(l, sub).data, buildRCE(l, sub).data>>
        \o EmployeeRecords(l, sub.Employees)
        \o <<buildRCT(l, TotalsOver(ZeroTotals, sub.Employees)).data,
             buildRCF(l, Len(sub.Employees)).data>>

RECURSIVE Concat(_)
Concat(rs) == IF rs = << >> THEN << >> ELSE Head(rs) \o Concat(Tail(rs))

\* Generate, lines 153-161: the bytes written when no write fails.
GenerateBytes(sub) == Concat(GenerateRecords(sub))

(***************************************************************************)
(* Generate as a state machine.  One call: pc walks start -> loop ->       *)
(* write -> done | failed | panicked.                                      *)
(***************************************************************************)

VARIABLES
  g,        \* the receiver *Generator, as New built it
  s,        \* the *domain.Submission of the call
  pc,       \* where the call stands
  local,    \* Generate's local Generator (year and yspec of the submission)
  i,        \* employees the loop has processed
  totals,   \* the RCT accumulators
  records,  \* the records slice
  wi,       \* records the write loop has passed
  sink,     \* the bytes the io.Writer has accepted, in order
  err,      \* the error Generate returns: "nil", "length" or "write"
  parked,   \* a second Generate call on the same receiver, between its steps
  buf,      \* a record builder's *fixedBuf
  puts,     \* the put calls that builder issues
  order     \* the positions in puts of the calls applied so far, in order

vars == <<g, s, pc, local, i, totals, records, wi, sink, err>>

\* The variables of a record builder at work.
bufvars == <<buf, puts, order>>

\* No builder is at work and no second call is under way.
NoCall == [pc |-> "none"]
Single ==
  /\ parked = NoCall
  /\ buf = newBuf
  /\ puts = << >>
  /\ order = << >>

\* func New(year int) (*Generator, error)
New(year) ==
  LET y == IF year = 0 THEN DefaultYear ELSE year
      r == ForYear(y)
  IN  [gen |-> [year |-> y, yspec |-> r.spec],
       err |-> IF r.ok THEN "nil" ELSE "fallback"]

\* func (g *Generator) SupportedYears() []domain.TaxYearInfo
SupportedYears(gen) ==
  [k \in 1 .. Len(Supported) |->
     [Year |-> Itoa(NatDigits(Supported[k])),
      PublicationURL |-> ForYear(Supported[k]).spec.PublicationURL]]

\* The bytes a failing Write may have accepted before it failed.
PartialWrites == {0, 512}

\* The calls of the model: the year the receiver was constructed with, and
\* the submitter and employer of the submission.
Calls ==
  { [year |-> 0,    Submitter |-> SubmitterA, Employer |-> EmployerA],
    [year |-> 2024, Submitter |-> SubmitterB, Employer |-> EmployerB],
    [year |-> 2019, Submitter |-> SubmitterA, Employer |-> EmployerC] }

\* Further calls, made with short employee lists: the minimal submission
\* through a receiver of another year, and tax years that do not parse.
EdgeCalls ==
  { [year |-> 2021, Submitter |-> SubmitterA, Employer |-> EmployerA],
    [year |-> 2021, Submitter |-> SubmitterA, Employer |-> EmployerEmptyYear],
    [year |-> 0,    Submitter |-> SubmitterA, Employer |-> EmployerBadYear] }

Init ==
  /\ \/ \E c \in Calls, l \in EmployeeLists(MaxEmployees) :
          /\ g = New(c.year).gen
          /\ s = [Submitter |-> c.Submitter, Employer |-> c.Employer, Employees |-> l]
     \/ \E c \in EdgeCalls, l \in EmployeeLists(MaxEdgeEmployees) :
          /\ g = New(c.year).gen
          /\ s = [Submitter |-> c.Submitter, Employer |-> c.Employer, Employees |-> l]
  /\ pc = "start"
  /\ local = [year |-> 0, yspec |-> << >>]
  /\ i = 0
  /\ totals = ZeroTotals
  /\ records = << >>
  /\ wi = 0
  /\ sink = << >>
  /\ err = "nil"
  /\ Single

\* Generate building its records with the receiver's year and layout.
StartWithReceiver ==
  /\ pc = "start"
  /\ LET l   == g
         rca == buildRCA(l, s)
         rce == buildRCE(l, s)
     IN  /\ local' = l
         /\ IF rca.panicked \/ rce.panicked
              THEN /\ pc' = "panicked"
                   /\ UNCHANGED records
              ELSE /\ pc' = "loop"
                   /\ records' = <<rca.data, rce.data>>
  /\ UNCHANGED <<g, s, i, totals, wi, sink, err>>
  /\ UNCHANGED <<parked, bufvars>>

\* Generate keeping the generator of the submission's year in its receiver.
StartInReceiver ==
  /\ pc = "start"
  /\ LET yearInt == Atoi(s.Employer.TaxYear)
         l       == [year |-> yearInt, yspec |-> ForYear(yearInt).spec]
         rca     == buildRCA(l, s)
         rce     == buildRCE(l, s)
     IN  /\ local' = l
         /\ g' = l
         /\ IF rca.panicked \/ rce.panicked
              THEN /\ pc' = "panicked"
                   /\ UNCHANGED records
              ELSE /\ pc' = "loop"
                   /\ records' = <<rca.data, rce.data>>
  /\ UNCHANGED <<s, i, totals, wi, sink, err>>
  /\ UNCHANGED <<parked, bufvars>>

\* Generate, lines 59-66: resolve the year spec, build RCA and RCE.
Start ==
  /\ pc = "start"
  /\ LET yearInt == Atoi(s.Employer.TaxYear)
         l       == [year |-> yearInt, yspec |-> ForYear(yearInt).spec]
         rca     == buildRCA(l, s)
         rce     == buildRCE(l, s)
     IN  /\ local' = l
         /\ IF rca.panicked \/ rce.panicked
              THEN /\ pc' = "panicked"
                   /\ UNCHANGED records
              ELSE /\ pc' = "loop"
                   /\ records' = <<rca.data, rce.data>>
  /\ UNCHANGED <<g, s, i, totals, wi, sink, err>>
  /\ UNCHANGED <<parked, bufvars>>

\* The employee loop appending the RCS before the RCO.
EmployeeStepStateFirst ==
  /\ pc = "loop"
  /\ i < Len(s.Employees)
  /\ LET e   == s.Employees[i + 1]
         rcw == buildRCW(local, e)
         rco == IF hasRCOData(local, e) THEN <<buildRCO(local, e)>> ELSE << >>
         rcs == IF hasRCSData(local, e) THEN <<buildRCS(local, e)>> ELSE << >>
         new == <<rcw>> \o rcs \o rco
     IN  IF \E k \in 1 .. Len(new) : new[k].panicked
           THEN /\ pc' = "panicked"
                /\ UNCHANGED <<records, totals, i>>
           ELSE /\ records' = records \o [k \in 1 .. Len(new) |-> new[k].data]
                /\ totals' = Accumulate(totals, e)
                /\ i' = i + 1
                /\ pc' = "loop"
  /\ UNCHANGED <<g, s, local, wi, sink, err>>
  /\ UNCHANGED <<parked, bufvars>>

\* Generate, lines 89-136: one iteration of the employee loop.
EmployeeStep ==
  /\ pc = "loop"
  /\ i < Len(s.Employees)
  /\ LET e   == s.Employees[i + 1]
         rcw == buildRCW(local, e)
         rco == IF hasRCOData(local, e) THEN <<buildRCO(local, e)>> ELSE << >>
         rcs == IF hasRCSData(local, e) THEN <<buildRCS(local, e)>> ELSE << >>
         new == <<rcw>> \o rco \o rcs
     IN  IF \E k \in 1 .. Len(new) : new[k].panicked
           THEN /\ pc' = "panicked"
                /\ UNCHANGED <<records, totals, i>>
           ELSE /\ records' = records \o [k \in 1 .. Len(new) |-> new[k].data]
                /\ totals' = Accumulate(totals, e)
                /\ i' = i + 1
                /\ pc' = "loop"
  /\ UNCHANGED <<g, s, local, wi, sink, err>>
  /\ UNCHANGED <<parked, bufvars>>

\* Generate, lines 138-151: the loop is over; append RCT and RCF.
Totals ==
  /\ pc = "loop"
  /\ i = Len(s.Employees)
  /\ LET rct == buildRCT(local, totals)
         rcf == buildRCF(local, Len(s.Employees))
     IN  IF rct.panicked \/ rcf.panicked
           THEN /\ pc' = "panicked"
                /\ UNCHANGED records
           ELSE /\ pc' = "write"
                /\ records' = records \o <<rct.data, rcf.data>>
  /\ UNCHANGED <<g, s, local, i, totals, wi, sink, err>>
  /\ UNCHANGED <<parked, bufvars>>

\* The write loop taking a short write for a whole one.
WriteRecordShort ==
  /\ pc = "write"
  /\ wi < Len(records)
  /\ LET r == records[wi + 1]
     IN  IF Len(r) # RecordLen
           THEN /\ pc' = "failed"
                /\ err' = "length"
                /\ UNCHANGED <<wi, sink>>
           ELSE /\ \E n \in PartialWrites \cup {RecordLen} :
                     sink' = sink \o SubSeq(r, 1, n)
                /\ wi' = wi + 1
                /\ UNCHANGED <<pc, err>>
  /\ UNCHANGED <<g, s, local, i, totals, records>>
  /\ UNCHANGED <<parked, bufvars>>

\* The write loop ending every record with a line feed.
WriteRecordNewline ==
  /\ pc = "write"
  /\ wi < Len(records)
  /\ LET r == records[wi + 1]
     IN  IF Len(r) # RecordLen
           THEN /\ pc' = "failed"
                /\ err' = "length"
                /\ UNCHANGED <<wi, sink>>
           ELSE /\ sink' = sink \o r \o <<"\n">>
                /\ wi' = wi + 1
                /\ UNCHANGED <<pc, err>>
  /\ UNCHANGED <<g, s, local, i, totals, records>>
  /\ UNCHANGED <<parked, bufvars>>

\* Generate, lines 153-160: one iteration of the write loop whose Write
\* accepts the whole record (or the length guard that refuses it).
WriteRecord ==
  /\ pc = "write"
  /\ wi < Len(records)
  /\ LET r == records[wi + 1]
     IN  IF Len(r) # RecordLen
           THEN /\ pc' = "failed"
                /\ err' = "length"
                /\ UNCHANGED <<wi, sink>>
           ELSE /\ sink' = sink \o r
                /\ wi' = wi + 1
                /\ UNCHANGED <<pc, err>>
  /\ UNCHANGED <<g, s, local, i, totals, records>>
  /\ UNCHANGED <<parked, bufvars>>

\* The write loop noting a failed Write and going on with the next record.
WriteFailsContinues ==
  /\ pc = "write"
  /\ wi < Len(records)
  /\ Len(records[wi + 1]) = RecordLen
  /\ \E n \in PartialWrites :
       sink' = sink \o SubSeq(records[wi + 1], 1, n)
  /\ pc' = "write"
  /\ wi' = wi + 1
  /\ err' = "write"
  /\ UNCHANGED <<g, s, local, i, totals, records>>
  /\ UNCHANGED <<parked, bufvars>>

\* Generate, lines 157-159: the Write fails, having accepted n bytes.
WriteFails ==
  /\ pc = "write"
  /\ wi < Len(records)
  /\ Len(records[wi + 1]) = RecordLen
  /\ \E n \in PartialWrites :
       sink' = sink \o SubSeq(records[wi + 1], 1, n)
  /\ pc' = "failed"
  /\ err' = "write"
  /\ UNCHANGED <<g, s, local, i, totals, records, wi>>
  /\ UNCHANGED <<parked, bufvars>>

\* Generate, line 161: return nil.
Return ==
  /\ pc = "write"
  /\ wi = Len(records)
  /\ pc' = "done"
  /\ UNCHANGED <<g, s, local, i, totals, records, wi, sink, err>>
  /\ UNCHANGED <<parked, bufvars>>

Next == Start \/ EmployeeStep \/ Totals \/ WriteRecord \/ WriteFails \/ Return

Spec == Init /\ [][Next]_vars

(***************************************************************************)
(* The write loop of Generate (lines 153-160) taken by itself, as a        *)
(* function of the records slice it is handed: whole records, and records  *)
(* one byte short or one byte long, which only a faulty builder would      *)
(* return.                                                                 *)
(***************************************************************************)

\* Records a builder may hand over: two whole ones, one short, one long.
WriteSamples ==
  LET rca == buildRCA(New(0).gen, [Submitter |-> SubmitterA, Employer |-> EmployerA,
                                   Employees |-> << >>]).data
      rcf == buildRCF(New(0).gen, 0).data
  IN  {rca, rcf, SubSeq(rcf, 1, RecordLen - 1), rcf \o <<" ">>}

RECURSIVE RecordLists(_)
RecordLists(n) ==
  IF n = 0
    THEN {<< >>}
    ELSE LET shorter == RecordLists(n - 1)
         IN  shorter \cup {Append(l, r) : l \in {x \in shorter : Len(x) = n - 1},
                                          r \in WriteSamples}

\* Generate at line 153, with any records slice.
WriteInit ==
  /\ g = New(0).gen
  /\ s = [Submitter |-> SubmitterA, Employer |-> EmployerA, Employees |-> << >>]
  /\ pc = "write"
  /\ local = LocalGenerator(s)
  /\ i = 0
  /\ totals = ZeroTotals
  /\ records \in RecordLists(MaxWriteRecords)
  /\ wi = 0
  /\ sink = << >>
  /\ err = "nil"
  /\ Single

WriteNext == WriteRecord \/ WriteFails \/ Return

SpecWrite == WriteInit /\ [][WriteNext]_vars

(***************************************************************************)
(* Generate with a sink that accepts every write.  Generate is one         *)
(* sequential function: it takes its next step until it returns.           *)
(***************************************************************************)

GoodNext == Start \/ EmployeeStep \/ Totals \/ WriteRecord \/ Return

\* Generate is no longer running: it returned, or a panic unwound it.
Returned == pc \in {"done", "failed", "panicked"}

\* The caller's goroutine keeps running Generate until it is over.
Runs == ([]<><<GoodNext>>_vars) \/ (<>[]Returned)

SpecGoodSink == Init /\ [][GoodNext]_vars /\ Runs

(***************************************************************************)
(* A record builder at work, put by put, and Generate handing its record   *)
(* to the write loop.  The calls are those of buildRCW's SSN lines,        *)
(* buildRCO and buildRCF, and calls of put with values shorter and longer  *)
(* than the field and with names the table does not hold; they are applied *)
(* in any order.                                                           *)
(***************************************************************************)

\* The calls of buildRCW to its line 270 with an SSN correction, of buildRCO
\* and of buildRCF.
BuilderCalls ==
  LET l == New(0).gen
  IN  { SubSeq(rcwPuts(l, EmpBoth), 1, 4),
        rcoPuts(l, EmpTips),
        rcfPuts(l, 2) }

\* Calls of put by themselves: a short value over a longer one, a long value,
\* an empty one, and field names the table does not hold.
PutCalls ==
  LET rcw == New(0).gen.yspec.RCW
  IN  { << Put("OrigSSN", rcw, <<"1", "2", "3", "4", "5", "6", "7", "8", "9">>),
           Put("OrigSSN", rcw, <<"9", "8">>),
           Put("RecordIdentifier", rcw, <<"R", "C", "W", "X", "Y">>),
           Put("City", rcw, << >>) >>,
        << Put("RecordIdentifier", rcw, <<"R", "C", "W">>),
           Put("NoSuchField", rcw, <<"X">>),
           Put("StateAbbrev", rcw, <<"C", "A">>) >>,
        << Put("RecordIdentifier", specs[2021].RCO, <<"R", "C", "O">>),
           Put("OrigMedicaidWaiver", specs[2021].RCO, money11(Int64(100))) >> }

BufInit ==
  /\ g = New(0).gen
  /\ s = [Submitter |-> SubmitterA, Employer |-> EmployerA, Employees |-> << >>]
  /\ pc = "build"
  /\ local = LocalGenerator(s)
  /\ i = 0
  /\ totals = ZeroTotals
  /\ records = << >>
  /\ wi = 0
  /\ sink = << >>
  /\ err = "nil"
  /\ parked = NoCall
  /\ buf = newBuf
  /\ puts \in BuilderCalls \cup PutCalls
  /\ order = << >>

\* The positions of the calls applied so far.
Applied == {order[k] : k \in 1 .. Len(order)}

\* b.put(...): one more call of the builder, any of those not yet made.
PutAny ==
  /\ pc = "build"
  /\ ~buf.panicked
  /\ \E k \in (1 .. Len(puts)) \ Applied :
       /\ buf' = put(buf, puts[k].fieldName, puts[k].fields, puts[k].value)
       /\ order' = Append(order, k)
  /\ UNCHANGED <<vars, parked, puts>>

\* put panicked: the panic leaves the builder and Generate.
BuilderPanics ==
  /\ pc = "build"
  /\ buf.panicked
  /\ pc' = "panicked"
  /\ UNCHANGED <<g, s, local, i, totals, records, wi, sink, err>>
  /\ UNCHANGED <<parked, bufvars>>

\* return b.String(): the record joins the records slice.
BuilderReturns ==
  /\ pc = "build"
  /\ ~buf.panicked
  /\ Len(order) = Len(puts)
  /\ records' = <<buf.data>>
  /\ pc' = "write"
  /\ UNCHANGED <<g, s, local, i, totals, wi, sink, err>>
  /\ UNCHANGED <<parked, bufvars>>

BufNext ==
  PutAny \/ BuilderPanics \/ BuilderReturns \/ WriteRecord \/ WriteFails \/ Return

SpecBuf == BufInit /\ [][BufNext]_<<vars, bufvars>>

(***************************************************************************)
(* Two Generate calls on one receiver, each with its own submission and    *)
(* sink, their steps interleaved in any way.  The variables s .. err are   *)
(* those of the call taking the next step; parked holds the other call's.  *)
(* The receiver g is the one value both calls see.                         *)
(***************************************************************************)

\* The calls made together: the receiver's year and the two submissions.
ParCalls ==
  { [year |-> 2021,
     first  |-> [Submitter |-> SubmitterA, Employer |-> EmployerA,
                 Employees |-> <<EmpTips>>],
     second |-> [Submitter |-> SubmitterB, Employer |-> EmployerB,
                 Employees |-> <<EmpState>>]],
    [year |-> 0,
     first  |-> [Submitter |-> SubmitterA, Employer |-> EmployerA,
                 Employees |-> << >>],
     second |-> [Submitter |-> SubmitterA, Employer |-> EmployerC,
                 Employees |-> <<EmpLocal>>]] }

\* A call at its entry.
Entered(sub) ==
  [s |-> sub, pc |-> "start", local |-> [year |-> 0, yspec |-> << >>], i |-> 0,
   totals |-> ZeroTotals, records |-> << >>, wi |-> 0, sink |-> << >>,
   err |-> "nil"]

\* The state of the call taking the next step.
Running ==
  [s |-> s, pc |-> pc, local |-> local, i |-> i, totals |-> totals,
   records |-> records, wi |-> wi, sink |-> sink, err |-> err]

ParInit ==
  /\ \E c \in ParCalls :
       /\ g = New(c.year).gen
       /\ s = c.first
       /\ parked = Entered(c.second)
  /\ pc = "start"
  /\ local = [year |-> 0, yspec |-> << >>]
  /\ i = 0
  /\ totals = ZeroTotals
  /\ records = << >>
  /\ wi = 0
  /\ sink = << >>
  /\ err = "nil"
  /\ buf = newBuf
  /\ puts = << >>
  /\ order = << >>

\* The scheduler lets the other call take the next step.
Switch ==
  /\ parked.pc # "none"
  /\ parked' = Running
  /\ s' = parked.s
  /\ pc' = parked.pc
  /\ local' = parked.local
  /\ i' = parked.i
  /\ totals' = parked.totals
  /\ records' = parked.records
  /\ wi' = parked.wi
  /\ sink' = parked.sink
  /\ err' = parked.err
  /\ UNCHANGED <<g, bufvars>>

ParNext ==
  Start \/ EmployeeStep \/ Totals \/ WriteRecord \/ WriteFails \/ Return \/ Switch

SpecPar == ParInit /\ [][ParNext]_<<vars, parked>>

(***************************************************************************)
(* Reading the output stream: the 1024-byte slices of the sink, their      *)
(* record identifiers, and the numbers stored in their fields.             *)
(***************************************************************************)

NumSlices == Len(sink) \div RecordLen

Slice(k) == SubSeq(sink, (k - 1) * RecordLen + 1, k * RecordLen)

\* Bytes a..b (1-based, inclusive) of a record.
Bytes(r, a, b) == SubSeq(r, a, b)

Ids == [k \in 1 .. NumSlices |-> Bytes(Slice(k), 1, 3)]

RCA == <<"R", "C", "A">>
RCE == <<"R", "C", "E">>
RCW == <<"R", "C", "W">>
RCO == <<"R", "C", "O">>
RCS == <<"R", "C", "S">>
RCT == <<"R", "C", "T">>
RCF == <<"R", "C", "F">>

\* The slices that are RCW records, and the k-th of them.
RcwSlices == {j \in 1 .. NumSlices : Ids[j] = RCW}

RcwSlice(k) ==
  CHOOSE j \in RcwSlices : Cardinality({x \in RcwSlices : x < j}) = k - 1

\* The slices after the k-th RCW that belong to the same employee: up to
\* the next RCW or RCT.
SegmentOf(k) ==
  {j \in RcwSlice(k) + 1 .. NumSlices :
     \A x \in RcwSlice(k) + 1 .. j : Ids[x] \notin {RCW, RCT, RCF}}

\* The field of a field list by name.
FieldNamed(fields, name) ==
  fields[CHOOSE k \in 1 .. Len(fields) : fields[k].Name = name]

\* The bytes of a record at a named field.
FieldBytes(r, fields, name) ==
  Bytes(r, FieldNamed(fields, name).Start, FieldNamed(fields, name).End)

AllDigits(bs) == \A k \in 1 .. Len(bs) : IsDigit(bs[k])

\* The magnitude a run of digit characters denotes (leading zeros dropped).
Number(bs) ==
  StripZeros([k \in 1 .. Len(bs) |->
                IF bs[k] = "0" THEN 0 ELSE CHOOSE d \in 1 .. 9 : DigitChar[d] = bs[k]])

\* max(c, 0) of an int64, as a magnitude.
Clamped(c) == IF c.neg THEN << >> ELSE c.mag

\* The sum of the numbers a set of slices stores at bytes a..b.
RECURSIVE SumOver(_, _, _)
SumOver(js, a, b) ==
  IF js = {}
    THEN << >>
    ELSE LET j == CHOOSE x \in js : TRUE
         IN  MagAdd(Number(Bytes(Slice(j), a, b)), SumOver(js \ {j}, a, b))

Succeeded == pc = "done" /\ err = "nil"

\* The slice holding the RCT record and the one holding the RCF record of
\* a finished stream.
RctSlice == NumSlices - 1

RcfSlice == NumSlices

\* The employee's Box 8 pair holds a non-zero value.
TipsPopulated(e) ==
  e.Amounts.OriginalAllocatedTips # Zero64 \/ e.Amounts.CorrectAllocatedTips # Zero64

\* The employee carries a state code, state wages or state income tax.
StatePopulated(e) ==
  \/ e.OriginalStateCode # << >>
  \/ e.CorrectStateCode # << >>
  \/ e.Amounts.OriginalStateWages # Zero64
  \/ e.Amounts.CorrectStateWages # Zero64
  \/ e.Amounts.OriginalStateIncomeTax # Zero64
  \/ e.Amounts.CorrectStateIncomeTax # Zero64

\* The employee carries locality data only: a state ID number, a locality
\* name or local amounts, and nothing that is state data.
LocalOnly(e) ==
  /\ ~StatePopulated(e)
  /\ e.OriginalStateIDNumber # << >>
  /\ e.OriginalLocalityName # << >>
  /\ e.Amounts.OriginalLocalWages # Zero64
  /\ e.Amounts.CorrectLocalIncomeTax # Zero64

EmployeeIndexes == 1 .. Len(s.Employees)

(***************************************************************************)
(* C1: record order.                                                       *)
(***************************************************************************)

\* The automaton of RCA, RCE, (RCW [RCO] [RCS])*, RCT, RCF: 0 before RCA,
\* 7 after RCF, 8 once the sequence has left the grammar.
ShapeStep(q, id) ==
  CASE q = 0 /\ id = RCA -> 1
    [] q = 1 /\ id = RCE -> 2
    [] q \in {2, 3, 4, 5} /\ id = RCW -> 3
    [] q = 3 /\ id = RCO -> 4
    [] q \in {3, 4} /\ id = RCS -> 5
    [] q \in {2, 3, 4, 5} /\ id = RCT -> 6
    [] q = 6 /\ id = RCF -> 7
    [] OTHER -> 8

RECURSIVE ShapeAfter(_)
ShapeAfter(n) == IF n = 0 THEN 0 ELSE ShapeStep(ShapeAfter(n - 1), Ids[n])

\* C1: the identifiers of the 1024-byte slices Generate has written are at
\* every moment a prefix of RCA, RCE, (RCW [RCO] [RCS])*, RCT, RCF, and when
\* Generate returns nil they are a whole word of it, ending with RCF, with
\* one RCW per employee, the k-th RCW being the k-th employee's.
C1_RecordOrder ==
  /\ ShapeAfter(NumSlices) # 8
  /\ pc = "done" =>
       /\ ShapeAfter(NumSlices) = 7
       /\ Len(sink) = NumSlices * RecordLen
       /\ Cardinality(RcwSlices) = Len(s.Employees)
       /\ \A k \in EmployeeIndexes :
            Slice(RcwSlice(k)) = buildRCW(local, s.Employees[k]).data

\* C1 witness: a finished stream of two employees, one with neither optional
\* record followed by one with an RCO and an RCS.
C1_Witness ==
  /\ Succeeded
  /\ Len(s.Employees) = 2
  /\ \E j \in 1 .. NumSlices - 3 :
       /\ Ids[j] = RCW
       /\ Ids[j + 1] = RCW
       /\ Ids[j + 2] = RCO
       /\ Ids[j + 3] = RCS

(***************************************************************************)
(* C2: record length.                                                      *)
(***************************************************************************)

\* C2: every record handed to the write loop is 1024 bytes long; while the
\* loop runs the sink holds exactly the records written so far, back to
\* back; and when Generate returns nil the sink is 1024 bytes times the
\* number of records, with nothing between them.
C2_RecordLength ==
  /\ pc \in {"write", "done", "failed"} =>
       \A k \in 1 .. Len(records) : Len(records[k]) = RecordLen
  /\ pc \in {"write", "done"} =>
       /\ Len(sink) = RecordLen * wi
       /\ \A k \in 1 .. wi : Slice(k) = records[k]
  /\ pc = "done" =>
       /\ err = "nil"
       /\ wi = Len(records)
       /\ Len(sink) = RecordLen * Len(records)

\* C2 witness: Generate returned nil having written more than the four
\* fixed records.
C2_Witness == Succeeded /\ Len(records) > 4 /\ Len(sink) = RecordLen * Len(records)

(***************************************************************************)
(* C3: RCT totals.                                                         *)
(***************************************************************************)

\* The Box 1-7 fields of RCW and the RCT total of each.
BoxPairs ==
  { <<"OrigWagesTipsOther", "OrigTotalWagesTips">>,
    <<"CorrectWagesTipsOther", "CorrectTotalWagesTips">>,
    <<"OrigFedIncomeTax", "OrigTotalFedIncomeTax">>,
    <<"CorrectFedIncomeTax", "CorrectTotalFedIncomeTax">>,
    <<"OrigSSWages", "OrigTotalSSWages">>,
    <<"CorrectSSWages", "CorrectTotalSSWages">>,
    <<"OrigSSTax", "OrigTotalSSTax">>,
    <<"CorrectSSTax", "CorrectTotalSSTax">>,
    <<"OrigMedicareWages", "OrigTotalMedicareWages">>,
    <<"CorrectMedicareWages", "CorrectTotalMedicareWages">>,
    <<"OrigMedicareTax", "OrigTotalMedicareTax">>,
    <<"CorrectMedicareTax", "CorrectTotalMedicareTax">>,
    <<"OrigSSTips", "OrigTotalSSTips">>,
    <<"CorrectSSTips", "CorrectTotalSSTips">> }

\* The number the RCT record stores for a total, and the sum of the numbers
\* the RCW records store for the field it totals.
RctNumber(p) ==
  Number(FieldBytes(Slice(RctSlice), local.yspec.RCT, p[2]))

RcwSum(p) ==
  SumOver(RcwSlices, FieldNamed(local.yspec.RCW, p[1]).Start,
          FieldNamed(local.yspec.RCW, p[1]).End)

\* C3: when Generate returns nil, for each Box 1-7 field the number stored in
\* the RCT total equals the sum of the numbers stored in that field of the
\* RCW records of the stream.
C3_TotalsLaw ==
  pc = "done" => \A p \in BoxPairs : RctNumber(p) = RcwSum(p)

(***************************************************************************)
(* C4, C5: the RCW counts of RCF and RCT.                                  *)
(***************************************************************************)

\* C4: when Generate returns nil, bytes 4-10 of the RCF record are seven
\* digits whose number is the number of RCW records in the stream, which is
\* the number of employees.
C4_RcfCount ==
  pc = "done" =>
    LET bs == Bytes(Slice(RcfSlice), 4, 10)
    IN  /\ Ids[RcfSlice] = RCF
        /\ Len(bs) = 7
        /\ AllDigits(bs)
        /\ Number(bs) = NatDigits(Cardinality(RcwSlices))
        /\ Cardinality(RcwSlices) = Len(s.Employees)

\* C4 witness: a finished stream with two RCW records and "0000002" in RCF.
C4_Witness ==
  /\ Succeeded
  /\ Cardinality(RcwSlices) = 2
  /\ Bytes(Slice(RcfSlice), 4, 10) = <<"0", "0", "0", "0", "0", "0", "2">>

\* C5: when Generate returns nil, bytes 4-10 of the RCT record hold the
\* number of RCW records of the stream, the same seven digits as bytes 4-10
\* of the RCF record.
C5_RctCount ==
  pc = "done" =>
    /\ Ids[RctSlice] = RCT
    /\ Bytes(Slice(RctSlice), 4, 10) = Bytes(Slice(RcfSlice), 4, 10)
    /\ Number(Bytes(Slice(RctSlice), 4, 10)) = NatDigits(Cardinality(RcwSlices))

(***************************************************************************)
(* C6, C7: record counts.                                                  *)
(***************************************************************************)

\* C6: when Generate returns nil for n employees none of which has a Box 8
\* amount or state data, the stream is n + 4 records: RCA, RCE, n RCW, RCT,
\* RCF.
C6_PlainCount ==
  (pc = "done" /\ \A k \in EmployeeIndexes :
                    ~TipsPopulated(s.Employees[k]) /\ ~StatePopulated(s.Employees[k]))
    => /\ NumSlices = Len(s.Employees) + 4
       /\ Len(sink) = RecordLen * (Len(s.Employees) + 4)
       /\ Ids = <<RCA, RCE>> \o [k \in EmployeeIndexes |-> RCW] \o <<RCT, RCF>>

\* C6 witness: a finished stream of two employees without Box 8 or state
\* data, one of them with optional amounts and locality data.
C6_Witness ==
  /\ Succeeded
  /\ Len(s.Employees) = 2
  /\ \A k \in EmployeeIndexes :
       ~TipsPopulated(s.Employees[k]) /\ ~StatePopulated(s.Employees[k])
  /\ \E k \in EmployeeIndexes : LocalOnly(s.Employees[k])
  /\ NumSlices = 6

AllTriggerBoth ==
  \A k \in EmployeeIndexes :
    TipsPopulated(s.Employees[k]) /\ StatePopulated(s.Employees[k])

\* C7 as stated: when Generate returns nil for n employees all of which
\* trigger both RCO and RCS, the stream is 3 + 3n records.
C7_ThreePlusThreeN ==
  (pc = "done" /\ AllTriggerBoth) => NumSlices = 3 + 3 * Len(s.Employees)

\* C7 amended: when Generate returns nil for n employees all of which
\* trigger both RCO and RCS, the stream is 4 + 3n records: RCA, RCE, RCT and
\* RCF, and an RCW, an RCO and an RCS per employee.
C7_FourPlusThreeN ==
  (pc = "done" /\ AllTriggerBoth)
    => /\ NumSlices = 4 + 3 * Len(s.Employees)
       /\ Len(sink) = RecordLen * (4 + 3 * Len(s.Employees))

\* C7 witness: a finished stream of two employees that both trigger RCO and
\* RCS: ten records.
C7_Witness ==
  /\ Succeeded
  /\ Len(s.Employees) = 2
  /\ AllTriggerBoth
  /\ NumSlices = 10

(***************************************************************************)
(* C8, C9: the optional records.                                           *)
(***************************************************************************)

\* C8: when Generate returns nil, the slice right after an employee's RCW is
\* an RCO exactly when the employee's Box 8 pair holds a non-zero amount,
\* and then bytes 13-23 and 24-34 of it are eleven digits each whose numbers
\* are the original and the correct amount (zero for a negative one).
C8_RcoLaw ==
  pc = "done" =>
    \A k \in EmployeeIndexes :
      LET e == s.Employees[k]
          r == Slice(RcwSlice(k) + 1)
      IN  /\ (Ids[RcwSlice(k) + 1] = RCO) <=> TipsPopulated(e)
          /\ Ids[RcwSlice(k) + 1] = RCO =>
               /\ AllDigits(Bytes(r, 13, 23))
               /\ AllDigits(Bytes(r, 24, 34))
               /\ Number(Bytes(r, 13, 23)) = Clamped(e.Amounts.OriginalAllocatedTips)
               /\ Number(Bytes(r, 24, 34)) = Clamped(e.Amounts.CorrectAllocatedTips)

\* An RCS among the records of the k-th employee.
HasRcs(k) == \E j \in SegmentOf(k) : Ids[j] = RCS

Partitions(fields) ==
  /\ Len(fields) > 0
  /\ fields[1].Start = 1
  /\ \A k \in 2 .. Len(fields) : fields[k].Start = fields[k - 1].End + 1
  /\ \A k \in 1 .. Len(fields) : fields[k].End >= fields[k].Start
  /\ fields[Len(fields)].End = RecordLen

\* C10: the supported years are 2021 to 2024; each has a spec of its own,
\* and each of its seven field lists is non-empty, starts at 1, continues
\* each field right after the one before, has no field ending before it
\* starts, and ends at 1024; so does the layout Generate resolved.
C10_LayoutPartition ==
  /\ Supported = <<2021, 2022, 2023, 2024>>
  /\ \A y \in 1 .. Len(Supported) :
       /\ ForYear(Supported[y]).ok
       /\ ForYear(Supported[y]).spec.TaxYear = Supported[y]
       /\ \A k \in 1 .. Len(RecordKinds) :
            Partitions(FieldsOf(ForYear(Supported[y]).spec, RecordKinds[k]))
  /\ pc # "start" =>
       \A k \in 1 .. Len(RecordKinds) :
         Partitions(FieldsOf(local.yspec, RecordKinds[k]))

\* C10 witness: Generate wrote an RCO record under the TY2024 layout, whose
\* RCO table is the base table with its trailing blank replaced by three
\* fields.
C10_Witness ==
  /\ Succeeded
  /\ local.year = 2024
  /\ local.yspec = ty2024
  /\ Len(local.yspec.RCO) = Len(baseRCO) + 2
  /\ \E j \in 1 .. NumSlices : Ids[j] = RCO

(***************************************************************************)
(* C11, C12, C13: the correction pairs of the RCW record.                  *)
(***************************************************************************)

\* The RCW record of the k-th employee in a finished stream.
RcwOf(k) == Slice(RcwSlice(k))

\* One of the employee's original-name fields (first, middle, last) is
\* populated.
NameCorrected(e) ==
  e.OriginalFirstName # << >> \/ e.OriginalMiddleName # << >> \/ e.OriginalLastName # << >>

\* C11: when Generate returns nil, every RCW record holds the employee's
\* current first, middle and last name at bytes 72-121; bytes 22-71 hold the
\* original first, middle and last name when any of the three is populated,
\* and spaces when none is.
C11_NamePairing ==
  pc = "done" =>
    \A k \in EmployeeIndexes :
      LET e == s.Employees[k]
      IN  /\ Bytes(RcwOf(k), 72, 121) =
               padAlpha(e.FirstName, 15) \o padAlpha(e.MiddleName, 15)
                 \o padAlpha(e.LastName, 20)
          /\ Bytes(RcwOf(k), 22, 71) =
               IF NameCorrected(e)
                 THEN padAlpha(e.OriginalFirstName, 15)
                        \o padAlpha(e.OriginalMiddleName, 15)
                        \o padAlpha(e.OriginalLastName, 20)
                 ELSE Repeat(" ", 50)

\* C12: when Generate returns nil, every RCW record of an employee with an
\* OriginalSSN holds that SSN at bytes 4-12 and the current SSN at bytes
\* 13-21; without an OriginalSSN it holds the current SSN at bytes 4-12 and
\* spaces at bytes 13-21.
C12_SsnPairing ==
  pc = "done" =>
    \A k \in EmployeeIndexes :
      LET e == s.Employees[k]
      IN  IF e.OriginalSSN # << >>
            THEN /\ Bytes(RcwOf(k), 4, 12) = cleanDigits(e.OriginalSSN, 9)
                 /\ Bytes(RcwOf(k), 13, 21) = cleanDigits(e.SSN, 9)
            ELSE /\ Bytes(RcwOf(k), 4, 12) = cleanDigits(e.SSN, 9)
                 /\ Bytes(RcwOf(k), 13, 21) = Repeat(" ", 9)

\* C12 witness: a finished stream with an SSN correction (222334445 to
\* 222334444) and an employee whose SSN is not corrected.
C12_Witness ==
  /\ Succeeded
  /\ \E k \in EmployeeIndexes :
       /\ s.Employees[k].OriginalSSN # << >>
       /\ Bytes(RcwOf(k), 4, 12) = <<"2", "2", "2", "3", "3", "4", "4", "4", "5">>
       /\ Bytes(RcwOf(k), 13, 21) = <<"2", "2", "2", "3", "3", "4", "4", "4", "4">>
  /\ \E k \in EmployeeIndexes :
       /\ s.Employees[k].OriginalSSN = << >>
       /\ Bytes(RcwOf(k), 13, 21) = Repeat(" ", 9)

\* The byte of one side of a Box 13 pair: a space when unset, else 0 or 1.
TriState(side) ==
  IF side = << >> THEN " " ELSE IF side[1] THEN "1" ELSE "0"

\* C13: when Generate returns nil, bytes 1003-1008 of every RCW record are
\* the six Box 13 sides in the order original/correct Statutory Employee,
\* Retirement Plan, Third-Party Sick Pay, each a space when that side is
\* unset, 0 when false and 1 when true, whatever the other side is.
C13_Box13 ==
  pc = "done" =>
    \A k \in EmployeeIndexes :
      LET b == s.Employees[k].Box13
      IN  Bytes(RcwOf(k), 1003, 1008) =
            << TriState(b.OrigStatutoryEmployee), TriState(b.CorrectStatutoryEmployee),
               TriState(b.OrigRetirementPlan), TriState(b.CorrectRetirementPlan),
               TriState(b.OrigThirdPartySickPay), TriState(b.CorrectThirdPartySickPay) >>

\* C13 witness: a finished stream with an employee whose Retirement Plan
\* pair has only its original side set and whose Sick Pay pair is unset:
\* the bytes are "011" and three spaces.
C13_Witness ==
  /\ Succeeded
  /\ \E k \in EmployeeIndexes :
       /\ s.Employees[k].Box13.OrigRetirementPlan = <<TRUE>>
       /\ s.Employees[k].Box13.CorrectRetirementPlan = << >>
       /\ Bytes(RcwOf(k), 1003, 1008) = <<"0", "1", "1", " ", " ", " ">>

(***************************************************************************)
(* C14, C15: money pairs of RCW and RCT.                                   *)
(***************************************************************************)

\* The Box 1-7 pairs of RCW: the two fields and the two amounts of each.
RcwBoxPairs ==
  {
    [orig |-> "OrigWagesTipsOther", corr |-> "CorrectWagesTipsOther", amtOrig |-> "OriginalWagesTipsOther", amtCorr |-> "CorrectWagesTipsOther"],
    [orig |-> "OrigFedIncomeTax", corr |-> "CorrectFedIncomeTax", amtOrig |-> "OriginalFederalIncomeTax", amtCorr |-> "CorrectFederalIncomeTax"],
    [orig |-> "OrigSSWages", corr |-> "CorrectSSWages", amtOrig |-> "OriginalSocialSecurityWages", amtCorr |-> "CorrectSocialSecurityWages"],
    [orig |-> "OrigSSTax", corr |-> "CorrectSSTax", amtOrig |-> "OriginalSocialSecurityTax", amtCorr |-> "CorrectSocialSecurityTax"],
    [orig |-> "OrigMedicareWages", corr |-> "CorrectMedicareWages", amtOrig |-> "OriginalMedicareWages", amtCorr |-> "CorrectMedicareWages"],
    [orig |-> "OrigMedicareTax", corr |-> "CorrectMedicareTax", amtOrig |-> "OriginalMedicareTax", amtCorr |-> "CorrectMedicareTax"],
    [orig |-> "OrigSSTips", corr |-> "CorrectSSTips", amtOrig |-> "OriginalSocialSecurityTips", amtCorr |-> "CorrectSocialSecurityTips"] }

\* The optional pairs of RCW: Box 10, Box 11 (two), Box 12 D, E, G, W, AA,
\* BB, DD.
RcwOptionalPairs ==
  {
    [orig |-> "OrigDependentCare", corr |-> "CorrectDependentCare", amtOrig |-> "OriginalDependentCare", amtCorr |-> "CorrectDependentCare"],
    [orig |-> "OrigNonqualPlan457", corr |-> "CorrectNonqualPlan457", amtOrig |-> "OriginalNonqualPlan457", amtCorr |-> "CorrectNonqualPlan457"],
    [orig |-> "OrigNonqualNotSection457", corr |-> "CorrectNonqualNotSection457", amtOrig |-> "OriginalNonqualNotSection457", amtCorr |-> "CorrectNonqualNotSection457"],
    [orig |-> "OrigCode401k", corr |-> "CorrectCode401k", amtOrig |-> "OriginalCode401k", amtCorr |-> "CorrectCode401k"],
    [orig |-> "OrigCode403b", corr |-> "CorrectCode403b", amtOrig |-> "OriginalCode403b", amtCorr |-> "CorrectCode403b"],
    [orig |-> "OrigCode457bGovt", corr |-> "CorrectCode457bGovt", amtOrig |-> "OriginalCode457bGovt", amtCorr |-> "CorrectCode457bGovt"],
    [orig |-> "OrigCodeW_HSA", corr |-> "CorrectCodeW_HSA", amtOrig |-> "OriginalCodeW_HSA", amtCorr |-> "CorrectCodeW_HSA"],
    [orig |-> "OrigCodeAA_Roth401k", corr |-> "CorrectCodeAA_Roth401k", amtOrig |-> "OriginalCodeAA_Roth401k", amtCorr |-> "CorrectCodeAA_Roth401k"],
    [orig |-> "OrigCodeBB_Roth403b", corr |-> "CorrectCodeBB_Roth403b", amtOrig |-> "OriginalCodeBB_Roth403b", amtCorr |-> "CorrectCodeBB_Roth403b"],
    [orig |-> "OrigCodeDD_EmpHealth", corr |-> "CorrectCodeDD_EmpHealth", amtOrig |-> "OriginalCodeDD_EmpHealth", amtCorr |-> "CorrectCodeDD_EmpHealth"] }

\* The Box 1-7 total pairs of RCT: the two fields and the two accumulators.
RctBoxPairs ==
  {
    [orig |-> "OrigTotalWagesTips", corr |-> "CorrectTotalWagesTips", sumOrig |-> "origWages", sumCorr |-> "corrWages"],
    [orig |-> "OrigTotalFedIncomeTax", corr |-> "CorrectTotalFedIncomeTax", sumOrig |-> "origFed", sumCorr |-> "corrFed"],
    [orig |-> "OrigTotalSSWages", corr |-> "CorrectTotalSSWages", sumOrig |-> "origSS", sumCorr |-> "corrSS"],
    [orig |-> "OrigTotalSSTax", corr |-> "CorrectTotalSSTax", sumOrig |-> "origSSTax", sumCorr |-> "corrSSTax"],
    [orig |-> "OrigTotalMedicareWages", corr |-> "CorrectTotalMedicareWages", sumOrig |-> "origMed", sumCorr |-> "corrMed"],
    [orig |-> "OrigTotalMedicareTax", corr |-> "CorrectTotalMedicareTax", sumOrig |-> "origMedTax", sumCorr |-> "corrMedTax"],
    [orig |-> "OrigTotalSSTips", corr |-> "CorrectTotalSSTips", sumOrig |-> "origSSTips", sumCorr |-> "corrSSTips"] }

\* The optional total pairs of RCT.
RctOptionalPairs ==
  {
    [orig |-> "OrigTotalDependentCare", corr |-> "CorrectTotalDependentCare", sumOrig |-> "origDepCare", sumCorr |-> "corrDepCare"],
    [orig |-> "OrigTotalNonqualPlan457", corr |-> "CorrectTotalNonqualPlan457", sumOrig |-> "origNQ457", sumCorr |-> "corrNQ457"],
    [orig |-> "OrigTotalNonqualNotSection457", corr |-> "CorrectTotalNonqualNotSection457", sumOrig |-> "origNQNot457", sumCorr |-> "corrNQNot457"],
    [orig |-> "OrigTotalCode401k", corr |-> "CorrectTotalCode401k", sumOrig |-> "origD", sumCorr |-> "corrD"],
    [orig |-> "OrigTotalCode403b", corr |-> "CorrectTotalCode403b", sumOrig |-> "origE", sumCorr |-> "corrE"],
    [orig |-> "OrigTotalCode457bGovt", corr |-> "CorrectTotalCode457bGovt", sumOrig |-> "origG", sumCorr |-> "corrG"],
    [orig |-> "OrigTotalCodeW_HSA", corr |-> "CorrectTotalCodeW_HSA", sumOrig |-> "origW", sumCorr |-> "corrW"],
    [orig |-> "OrigTotalCodeAA_Roth401k", corr |-> "CorrectTotalCodeAA_Roth401k", sumOrig |-> "origAA", sumCorr |-> "corrAA"],
    [orig |-> "OrigTotalCodeBB_Roth403b", corr |-> "CorrectTotalCodeBB_Roth403b", sumOrig |-> "origBB", sumCorr |-> "corrBB"],
    [orig |-> "OrigTotalCodeDD_EmpHealth", corr |-> "CorrectTotalCodeDD_EmpHealth", sumOrig |-> "origDD", sumCorr |-> "corrDD"] }

Spaces(bs) == \A k \in 1 .. Len(bs) : bs[k] = " "

Zeros(bs) == \A k \in 1 .. Len(bs) : bs[k] = "0"

\* A field of n bytes holds an amount in Money: n digits whose number is the
\* amount, or zero for a negative amount.
HoldsMoney(bs, n, c) ==
  Len(bs) = n /\ AllDigits(bs) /\ Number(bs) = Clamped(c)

\* C14: when Generate returns nil, in every RCW record each of the fourteen
\* Box 1-7 fields is eleven digits, all '0' for a zero amount; each optional
\* pair is 22 spaces when both its amounts are zero, and otherwise both its
\* fields hold their amounts in Money11 (a zero side as eleven '0').
C14_RcwMoneyPairs ==
  pc = "done" =>
    \A k \in EmployeeIndexes :
      LET a == s.Employees[k].Amounts
          f == local.yspec.RCW
          r == RcwOf(k)
      IN  /\ \A p \in RcwBoxPairs :
               /\ AllDigits(FieldBytes(r, f, p.orig))
               /\ AllDigits(FieldBytes(r, f, p.corr))
               /\ Len(FieldBytes(r, f, p.orig) \o FieldBytes(r, f, p.corr)) = 22
               /\ a[p.amtOrig] = Zero64 => Zeros(FieldBytes(r, f, p.orig))
               /\ a[p.amtCorr] = Zero64 => Zeros(FieldBytes(r, f, p.corr))
          /\ \A p \in RcwOptionalPairs :
               IF a[p.amtOrig] = Zero64 /\ a[p.amtCorr] = Zero64
                 THEN /\ Spaces(FieldBytes(r, f, p.orig) \o FieldBytes(r, f, p.corr))
                      /\ Len(FieldBytes(r, f, p.orig) \o FieldBytes(r, f, p.corr)) = 22
                 ELSE /\ HoldsMoney(FieldBytes(r, f, p.orig), 11, a[p.amtOrig])
                      /\ HoldsMoney(FieldBytes(r, f, p.corr), 11, a[p.amtCorr])

\* The RCT record of a finished stream.
RctRecord == Slice(RctSlice)

\* C15 as stated: when Generate returns nil, every total pair of the RCT
\* record, the Box 1-7 pairs included, is 30 spaces when both accumulated
\* sums are zero, and otherwise both its fields hold the sums in Money15.
C15_EveryPairSkipsZero ==
  pc = "done" =>
    \A p \in RctBoxPairs \cup RctOptionalPairs :
      LET f == local.yspec.RCT
      IN  IF totals[p.sumOrig] = Zero64 /\ totals[p.sumCorr] = Zero64
            THEN Spaces(FieldBytes(RctRecord, f, p.orig) \o FieldBytes(RctRecord, f, p.corr))
            ELSE /\ HoldsMoney(FieldBytes(RctRecord, f, p.orig), 15, totals[p.sumOrig])
                 /\ HoldsMoney(FieldBytes(RctRecord, f, p.corr), 15, totals[p.sumCorr])

\* What a written RCT field holds for an accumulated sum: the zero-padded
\* decimal of the sum, zero for a negative sum, cut to fifteen characters.
Written15(c) ==
  LET ds == Itoa(Clamped(c))
  IN  SubSeq(Repeat("0", 15) \o ds,
             IF Len(ds) > 15 THEN 16 ELSE Len(ds) + 1,
             IF Len(ds) > 15 THEN 30 ELSE Len(ds) + 15)

\* C15 amended: when Generate returns nil, each Box 1-7 total pair of the
\* RCT record is always written, a zero sum as fifteen '0'; each optional
\* total pair is 30 spaces when both accumulated sums are zero and otherwise
\* has both fields written.  A written field is fifteen digits: the
\* accumulated sum, zero when it is negative, its first fifteen digits when
\* it has more.
C15_OptionalPairsSkipZero ==
  pc = "done" =>
    LET f == local.yspec.RCT
    IN  /\ \A p \in RctBoxPairs :
             /\ FieldBytes(RctRecord, f, p.orig) = Written15(totals[p.sumOrig])
             /\ FieldBytes(RctRecord, f, p.corr) = Written15(totals[p.sumCorr])
             /\ totals[p.sumOrig] = Zero64 => Zeros(FieldBytes(RctRecord, f, p.orig))
        /\ \A p \in RctOptionalPairs :
             IF totals[p.sumOrig] = Zero64 /\ totals[p.sumCorr] = Zero64
               THEN /\ Spaces(FieldBytes(RctRecord, f, p.orig) \o FieldBytes(RctRecord, f, p.corr))
                    /\ Len(FieldBytes(RctRecord, f, p.orig) \o FieldBytes(RctRecord, f, p.corr)) = 30
               ELSE /\ FieldBytes(RctRecord, f, p.orig) = Written15(totals[p.sumOrig])
                    /\ FieldBytes(RctRecord, f, p.corr) = Written15(totals[p.sumCorr])
                    /\ AllDigits(FieldBytes(RctRecord, f, p.orig))
                    /\ AllDigits(FieldBytes(RctRecord, f, p.corr))

\* C15 witness: a finished stream of two employees whose RCT record has the
\* Box 12 Code D pair written with a zero original side (000000000000000 and
\* 000000000250000), the Box 7 pair written as zeros, and the Code G pair
\* left as spaces.
C15_Witness ==
  /\ Succeeded
  /\ Len(s.Employees) = 2
  /\ totals.origD = Zero64
  /\ FieldBytes(RctRecord, local.yspec.RCT, "OrigTotalCode401k") = Repeat("0", 15)
  /\ Number(FieldBytes(RctRecord, local.yspec.RCT, "CorrectTotalCode401k")) = <<2, 5, 0, 0, 0, 0>>
  /\ totals.origSSTips = Zero64 /\ totals.corrSSTips = Zero64
  /\ Zeros(FieldBytes(RctRecord, local.yspec.RCT, "OrigTotalSSTips"))
  /\ Spaces(FieldBytes(RctRecord, local.yspec.RCT, "OrigTotalCode457bGovt"))

(***************************************************************************)
(* Determinism and layout selection.                                       *)
(***************************************************************************)

\* The decimal text of a year, as strconv.Itoa gives it.
TY(y) == Itoa(NatDigits(y))

\* C16: Generate is a deterministic function of the submission: every run
\* that completes has written exactly the bytes the submission determines,
\* whichever generator it was called on and whatever the sink, so two runs
\* on the same submission into separate sinks give byte-identical streams.
C16_Deterministic ==
  pc = "done" => /\ records = GenerateRecords(s)
                 /\ sink = GenerateBytes(s)

\* A completed run on a generator constructed for another year than the
\* submission's, on a submission that a generator of its own year also ran.
C16_Witness ==
  /\ Succeeded
  /\ g.year = 2021
  /\ s.Employer = EmployerA
  /\ Len(s.Employees) = 1
  /\ sink = GenerateBytes(s)
  /\ \E c \in Calls : c.Submitter = s.Submitter /\ c.Employer = s.Employer /\ New(c.year).gen # g

\* The layout Employer.TaxYear alone selects: the year's own when the text
\* is the decimal of a supported year, the default year's otherwise.
LayoutOf(taxYear) ==
  IF \E k \in 1 .. Len(Supported) : taxYear = TY(Supported[k])
    THEN specs[CHOOSE y \in DOMAIN specs : taxYear = TY(y)]
    ELSE specs[DefaultYear]

\* C17: Generate selects the layout from the submission's Employer.TaxYear
\* alone, whatever year the Generator was constructed with; a tax year that
\* is unsupported, empty or not a number selects the default-year (2024)
\* layout, and the run neither panics nor rejects a record.
C17_LayoutFromTaxYear ==
  /\ pc # "start" => local.yspec = LayoutOf(s.Employer.TaxYear)
  /\ pc # "panicked"
  /\ err \in {"nil", "write"}
  /\ pc = "done" => err = "nil"

\* A run on a generator built for 2021 completes with the 2024 layout for an
\* empty tax year.
C17_Witness ==
  /\ Succeeded
  /\ g.year = 2021
  /\ s.Employer.TaxYear = << >>
  /\ local.yspec = specs[2024]
  /\ g.yspec = specs[2021]
  /\ FieldBytes(Slice(2), local.yspec.RCE, "RecordIdentifier") = RCE

\* Years probed around the supported ones.
ProbeYears == {0 - 2024, 0, 1, 2019, 2020, 2021, 2022, 2023, 2024, 2025, 2026}

\* C18: the year lookup is total: ForYear(y) returns y's own layout with
\* exact = true exactly when y is one of the years Supported() and
\* SupportedYears() list (2021-2024, ascending, each with its publication
\* URL), and the 2024 layout with exact = false otherwise; New(y) then gives
\* a usable generator and a warning, New of a supported year or of 0 none.
C18_TotalLookup ==
  /\ Supported = <<2021, 2022, 2023, 2024>>
  /\ SupportedYears(g) =
       << [Year |-> <<"2", "0", "2", "1">>,
           PublicationURL |-> "https://www.ssa.gov/employer/efw/21efw2c.pdf"],
          [Year |-> <<"2", "0", "2", "2">>,
           PublicationURL |-> "https://www.ssa.gov/employer/efw/22efw2c.pdf"],
          [Year |-> <<"2", "0", "2", "3">>,
           PublicationURL |-> "https://www.ssa.gov/employer/efw/23efw2c.pdf"],
          [Year |-> <<"2", "0", "2", "4">>,
           PublicationURL |-> "https://www.ssa.gov/employer/efw/24efw2c.pdf"] >>
  /\ \A y \in ProbeYears :
       LET r    == ForYear(y)
           n    == New(y)
           list == \E k \in 1 .. Len(Supported) : Supported[k] = y
       IN  /\ r.ok <=> list
           /\ r.ok => r.spec.TaxYear = y
           /\ ~r.ok => r.spec = ForYear(2024).spec /\ r.spec.TaxYear = 2024
           /\ r.spec.TaxYear \in {2021, 2022, 2023, 2024}
           /\ n.err = "nil" <=> (list \/ y = 0)
           /\ n.gen.yspec.TaxYear = (IF list THEN y ELSE 2024)
           /\ n.gen.yspec.PublicationURL =
                SupportedYears(n.gen)[n.gen.yspec.TaxYear - 2020].PublicationURL
  /\ \E y \in ProbeYears : g = New(y).gen
  /\ g.yspec.TaxYear = (IF g.year \in 2021 .. 2024 THEN g.year ELSE 2024)

\* A generator built for 2019, with its warning, carries the 2024 layout and
\* completes a run.
C18_Witness ==
  /\ g.year = 2019
  /\ New(2019).err = "fallback"
  /\ g = New(2019).gen
  /\ g.yspec.TaxYear = 2024
  /\ ~ForYear(2019).ok
  /\ Succeeded

(***************************************************************************)
(* The RCO record under two tax years.                                     *)
(***************************************************************************)

\* The records of the same submission emitted under tax year y.
Twin(y) == GenerateRecords([s EXCEPT !.Employer.TaxYear = TY(y)])

\* The RCO records of a completed run paired with those of its twin run
\* under the other of the years 2021 and 2024.
RcoPairs ==
  IF Succeeded /\ s.Employer.TaxYear \in {TY(2021), TY(2024)}
    THEN { IF s.Employer.TaxYear = TY(2021)
             THEN [r21 |-> Slice(j), r24 |-> Twin(2024)[j]]
             ELSE [r21 |-> Twin(2021)[j], r24 |-> Slice(j)] :
           j \in {k \in 1 .. NumSlices : Ids[k] = RCO} }
    ELSE {}

\* C19 as stated: RCO bytes 1-276 are identical under both years, and bytes
\* 277-298 are spaces under TY 2021 and two Money11 amounts under TY 2024.
C19_CodeIIWritten ==
  \A p \in RcoPairs :
    /\ Bytes(p.r21, 1, 3) = RCO /\ Bytes(p.r24, 1, 3) = RCO
    /\ Bytes(p.r21, 1, 276) = Bytes(p.r24, 1, 276)
    /\ Spaces(Bytes(p.r21, 277, 298))
    /\ AllDigits(Bytes(p.r24, 277, 287))
    /\ AllDigits(Bytes(p.r24, 288, 298))

\* C19: for the same submission emitted under TY 2021 and under TY 2024 the
\* RCO records are byte-identical: bytes 1-276 agree and bytes 277-298 (and
\* all to 1024) are spaces under both years, only the TY 2024 layout naming
\* the Code II pair there.
C19_RcoIdentical ==
  \A p \in RcoPairs :
    /\ Bytes(p.r21, 1, 3) = RCO /\ Bytes(p.r24, 1, 3) = RCO
    /\ Bytes(p.r21, 1, 276) = Bytes(p.r24, 1, 276)
    /\ Spaces(Bytes(p.r21, 277, 1024))
    /\ Spaces(Bytes(p.r24, 277, 1024))
    /\ p.r21 = p.r24
    /\ FieldNamed(specs[2024].RCO, "OrigMedicaidWaiver").Start = 277
    /\ FieldNamed(specs[2024].RCO, "CorrectMedicaidWaiver").End = 298

\* A TY 2024 run wrote an RCO with allocated tips whose Code II bytes are
\* blank, as are those of its TY 2021 twin.
C19_Witness ==
  /\ s.Employer.TaxYear = TY(2024)
  /\ \E p \in RcoPairs :
       /\ AllDigits(FieldBytes(p.r24, specs[2024].RCO, "OrigAllocatedTips"))
       /\ Spaces(Bytes(p.r24, 277, 298))
       /\ Spaces(Bytes(p.r21, 277, 298))

(***************************************************************************)
(* Write failure.                                                          *)
(***************************************************************************)

\* C20: when the write of record k fails, Generate returns the writer's
\* error and writes no more: the sink holds the first k-1 records of the
\* full sequence, whole and in order, followed only by what the failing
\* Write accepted of record k, and no step of Generate follows.
C20_WriteFailure ==
  /\ err = "write" => pc = "failed"
  /\ (pc = "write" /\ wi = 0) => records = GenerateRecords(s)
  /\ (pc = "failed" /\ err = "write") =>
       /\ wi < Len(records)
       /\ NumSlices = wi
       /\ \A j \in 1 .. wi : Slice(j) = records[j]
       /\ \E n \in 0 .. RecordLen - 1 :
            /\ Len(sink) = wi * RecordLen + n
            /\ SubSeq(sink, wi * RecordLen + 1, Len(sink)) =
                 SubSeq(records[wi + 1], 1, n)
       /\ ~ENABLED Next

\* The write of the fourth record failed half way: three whole records and
\* 512 bytes of the fourth are on the sink.
C20_Witness ==
  /\ pc = "failed"
  /\ err = "write"
  /\ wi = 3
  /\ Len(sink) = 3 * RecordLen + 512
  /\ Ids = <<RCA, RCE, RCW>>

(***************************************************************************)
(* The length guard.                                                       *)
(***************************************************************************)

GuardPerRecord ==
  (pc = "failed" /\ err = "length") =>
    /\ wi < Len(records)
    /\ Len(records[wi + 1]) # RecordLen
    /\ \A j \in 1 .. wi : Len(records[j]) = RecordLen
    /\ sink = Concat(SubSeq(records, 1, wi))

(***************************************************************************)
(* The buffer: unknown fields, the frame of put, and the order of writes.  *)
(***************************************************************************)

\* The put call a step of the builder makes.
StepPut == puts[order'[Len(order')]]

\* The table of a put call holds its field name.
Present(p) == \E k \in 1 .. Len(p.fields) : p.fields[k].Name = p.fieldName

\* C22: a put of a field name the table does not hold fails the call at
\* once: the put panics leaving the buffer's bytes as they were, no further
\* put is made, no record is returned, and the panic ends Generate with
\* nothing written to the sink.
C22_UnknownField ==
  [][ /\ (order' # order /\ ~Present(StepPut)) =>
           (buf'.panicked /\ buf'.data = buf.data)
      /\ (order' # order /\ Present(StepPut)) => ~buf'.panicked
      /\ buf.panicked =>
           /\ pc' = "panicked"
           /\ buf' = buf
           /\ order' = order
           /\ records' = << >>
           /\ sink' = << >>
      /\ pc # "panicked"
    ]_<<vars, bufvars>>

\* A put of an unknown name, made after another put had written its bytes,
\* has ended the call with the sink empty.
C22_Witness ==
  /\ pc = "panicked"
  /\ buf.panicked
  /\ Len(order) >= 2
  /\ ~Present(puts[order[Len(order)]])
  /\ buf.data # newBuf.data
  /\ sink = << >>

\* C26: put on a present field changes only bytes of that field: it stores
\* the first min(len(value), width) characters of value from start on, and
\* leaves every other byte, the rest of the field included, as it was; the
\* buffer stays 1024 bytes long.
C26_PutFrame ==
  [][ (order' # order /\ Present(StepPut)) =>
        LET p     == StepPut
            f     == p.fields[CHOOSE k \in 1 .. Len(p.fields) :
                                /\ p.fields[k].Name = p.fieldName
                                /\ \A j \in 1 .. k - 1 : p.fields[j].Name # p.fieldName]
            width == f.End - f.Start + 1
            n     == IF Len(p.value) < width THEN Len(p.value) ELSE width
        IN  /\ ~buf'.panicked
            /\ Len(buf'.data) = RecordLen
            /\ \A k \in 1 .. RecordLen :
                 buf'.data[k] = IF f.Start <= k /\ k < f.Start + n
                                  THEN p.value[k - f.Start + 1]
                                  ELSE buf.data[k]
    ]_<<vars, bufvars>>

\* A two-character value was put over a nine-digit one, and a five-character
\* one into the three bytes of the record identifier.
C26_Witness ==
  /\ Bytes(buf.data, 4, 12) = <<"9", "8", "3", "4", "5", "6", "7", "8", "9">>
  /\ Bytes(buf.data, 1, 3) = <<"R", "C", "W">>
  /\ Len(order) = Len(puts)
  /\ \E k \in 1 .. Len(puts) : Len(puts[k].value) = 5

\* The builder made all its calls.
Complete == Len(order) = Len(puts) /\ ~buf.panicked

\* C27 as stated: the calls of a builder applied in any order give the
\* record they give in program order.
C27_AnyOrder ==
  (Complete /\ puts \in BuilderCalls) => buf.data = Run(newBuf, puts).data

\* The calls to one field were applied in their program order.
FieldOrderKept ==
  \A a, c \in 1 .. Len(order) :
    (puts[order[a]].fieldName = puts[order[c]].fieldName /\ order[a] < order[c])
      => a < c

\* The field names a builder puts more than once.
Repeated(ps) ==
  {ps[a].fieldName : a \in {x \in 1 .. Len(ps) :
                              \E c \in 1 .. Len(ps) :
                                c # x /\ ps[c].fieldName = ps[x].fieldName}}

\* C27: the calls of a builder applied in any order that keeps the calls to
\* one field in their program order give the record they give in program
\* order; only buildRCW with an SSN correction puts a field twice (OrigSSN),
\* and applying its first OrigSSN write last changes the record.
C27_OrderPerField ==
  /\ (Complete /\ FieldOrderKept) => buf.data = Run(newBuf, puts).data
  /\ order = << >> =>
       LET l   == New(0).gen
           sub == [Submitter |-> SubmitterB, Employer |-> EmployerB,
                   Employees |-> <<EmpBoth, EmpBig>>]
       IN  /\ \A e \in EmployeeSamples :
                /\ Repeated(rcwPuts(l, e)) =
                     (IF e.OriginalSSN # << >> THEN {"OrigSSN"} ELSE {})
                /\ Repeated(rcoPuts(l, e)) = {}
                /\ Repeated(rcsPuts(l, e)) = {}
           /\ Repeated(rcaPuts(l, sub)) = {}
           /\ Repeated(rcePuts(l, sub)) = {}
           /\ Repeated(rctPuts(l, TotalsOver(ZeroTotals, sub.Employees))) = {}
           /\ Repeated(rcfPuts(l, 2)) = {}

\* The SSN lines of buildRCW were applied with CorrectSSN first and the
\* record identifier last, the two OrigSSN writes in program order.
C27_Witness ==
  /\ Complete
  /\ puts = SubSeq(rcwPuts(New(0).gen, EmpBoth), 1, 4)
  /\ order = <<4, 2, 3, 1>>
  /\ buf.data = Run(newBuf, puts).data
  /\ Bytes(buf.data, 4, 12) = cleanDigits(EmpBoth.OriginalSSN, 9)

(***************************************************************************)
(* The money formatters.                                                   *)
(***************************************************************************)

\* C23: for every cents value c, money11(c) is exactly 11 characters, the
\* decimal digits of max(c, 0) left-padded with '0', and the 11 bytes stored
\* in a Money11 field equal it; money15(c) likewise is exactly 15
\* characters.  c ranges over the amounts of the submission's employees and,
\* for money15, the accumulated totals as well.
C23_MoneyWidth ==
  /\ \A k \in EmployeeIndexes :
       \A name \in DOMAIN s.Employees[k].Amounts :
         LET c == s.Employees[k].Amounts[name]
         IN  /\ HoldsMoney(money11(c), 11, c)
             /\ HoldsMoney(money15(c), 15, c)
  /\ \A name \in DOMAIN totals : HoldsMoney(money15(totals[name]), 15, totals[name])
  /\ pc = "done" =>
       \A k \in EmployeeIndexes :
         \A p \in RcwBoxPairs :
           /\ FieldBytes(RcwOf(k), local.yspec.RCW, p.orig) =
                money11(s.Employees[k].Amounts[p.amtOrig])
           /\ FieldBytes(RcwOf(k), local.yspec.RCW, p.corr) =
                money11(s.Employees[k].Amounts[p.amtCorr])

(***************************************************************************)
(* Header codes and blank bytes.                                           *)
(***************************************************************************)

\* C24: in a finished stream RCA byte 316 is the submitter's PreparerCode,
\* 'L' when that is empty, and byte 317 its ResubIndicator, '0' when empty;
\* RCE byte 223 is the employer's EmploymentCode, 'R' when empty, and byte
\* 227 its KindOfEmployer, 'N' when empty; RCA bytes 4-12 are the employer's
\* EIN (its digits, cut or zero-filled to nine).
C24_HeaderCodes ==
  pc = "done" =>
    LET rca == Slice(1)
        rce == Slice(2)
        sub == s.Submitter
        emp == s.Employer
    IN  /\ Bytes(rca, 316, 316) =
             (IF sub.PreparerCode = << >> THEN <<"L">> ELSE sub.PreparerCode)
        /\ Bytes(rca, 317, 317) =
             (IF sub.ResubIndicator = << >> THEN <<"0">> ELSE sub.ResubIndicator)
        /\ Bytes(rce, 223, 223) =
             (IF emp.EmploymentCode = << >> THEN <<"R">> ELSE emp.EmploymentCode)
        /\ Bytes(rce, 227, 227) =
             (IF emp.KindOfEmployer = << >> THEN <<"N">> ELSE emp.KindOfEmployer)
        /\ Bytes(rca, 4, 12) = cleanDigits(emp.EIN, 9)
        /\ AllDigits(Bytes(rca, 4, 12))

\* A finished stream whose employer left both codes empty and whose
\* submitter gave both: 'A' and '1' in the RCA, 'R' and 'N' in the RCE.
C24_Witness ==
  /\ Succeeded
  /\ s.Employer.EmploymentCode = << >>
  /\ s.Employer.KindOfEmployer = << >>
  /\ s.Submitter.PreparerCode = <<"A">>
  /\ Bytes(Slice(1), 316, 317) = <<"A", "1">>
  /\ Bytes(Slice(2), 223, 223) = <<"R">>
  /\ Bytes(Slice(2), 227, 227) = <<"N">>
  /\ Bytes(Slice(1), 4, 12) = <<"1", "2", "3", "4", "5", "6", "7", "8", "9">>

\* The employee whose RCW, RCO or RCS is slice j.
EmployeeOfSlice(j) == Cardinality({x \in RcwSlices : x <= j})

\* The put calls that built slice j of a finished stream.
PutsOfSlice(j) ==
  IF Ids[j] = RCA THEN rcaPuts(local, s)
  ELSE IF Ids[j] = RCE THEN rcePuts(local, s)
  ELSE IF Ids[j] = RCW THEN rcwPuts(local, s.Employees[EmployeeOfSlice(j)])
  ELSE IF Ids[j] = RCO THEN rcoPuts(local, s.Employees[EmployeeOfSlice(j)])
  ELSE IF Ids[j] = RCS THEN rcsPuts(local, s.Employees[EmployeeOfSlice(j)])
  ELSE IF Ids[j] = RCT THEN rctPuts(local, totals)
  ELSE rcfPuts(local, Len(s.Employees))

\* The table of the layout in use for slice j.
TableOfSlice(j) ==
  IF Ids[j] = RCA THEN local.yspec.RCA
  ELSE IF Ids[j] = RCE THEN local.yspec.RCE
  ELSE IF Ids[j] = RCW THEN local.yspec.RCW
  ELSE IF Ids[j] = RCO THEN local.yspec.RCO
  ELSE IF Ids[j] = RCS THEN local.yspec.RCS
  ELSE IF Ids[j] = RCT THEN local.yspec.RCT
  ELSE local.yspec.RCF

\* C25: in every record of a finished stream, of every kind and year, every
\* byte of a Blank field and of every field the builder did not put for that
\* record is a space.
C25_UnwrittenIsSpace ==
  pc = "done" =>
    \A j \in 1 .. NumSlices :
      LET ps      == PutsOfSlice(j)
          written == {ps[k].fieldName : k \in 1 .. Len(ps)}
          table   == TableOfSlice(j)
      IN  \A k \in 1 .. Len(table) :
            (table[k].Type = "Blank" \/ table[k].Name \notin written)
              => Spaces(Bytes(Slice(j), table[k].Start, table[k].End))

\* A finished stream with an RCO whose employer gave no original EIN, agent
\* or contact: RCE bytes 8-16, 26-35 and 228-324 are spaces, and so is the
\* RCO past its Box 8 pair.
C25_Witness ==
  /\ Succeeded
  /\ s.Employer.OriginalEIN = << >>
  /\ s.Employer.AgentIndicator = << >>
  /\ s.Employer.ContactName = << >>
  /\ Spaces(Bytes(Slice(2), 8, 16))
  /\ Spaces(Bytes(Slice(2), 26, 35))
  /\ Spaces(FieldBytes(Slice(2), local.yspec.RCE, "ContactName"))
  /\ \E j \in 1 .. NumSlices : Ids[j] = RCO /\ Spaces(Bytes(Slice(j), 35, RecordLen))

(***************************************************************************)
(* Concurrent calls.                                                       *)
(***************************************************************************)

\* C28: under any interleaving of two Generate calls on one Generator, each
\* with its own submission and sink, every sink that sees its call finish
\* holds exactly the bytes a solo run on its submission writes; no step
\* changes the receiver or a submission, and a step of one call leaves the
\* state of the other call as it was.
C28_Interleaving ==
  /\ [](/\ pc = "done" => sink = GenerateBytes(s)
        /\ parked.pc = "done" => parked.sink = GenerateBytes(parked.s)
        /\ pc # "panicked"
        /\ parked.pc # "panicked")
  /\ [][ /\ g' = g
         /\ {s', parked'.s} = {s, parked.s}
         /\ s' = s => parked' = parked
         /\ s' # s => (parked' = Running /\ Running' = parked)
       ]_<<vars, parked>>

\* Both calls are in the middle of their write loops, each sink holding the
\* first records of its own submission.
C28_Witness ==
  /\ pc = "write"
  /\ parked.pc = "write"
  /\ 0 < wi /\ wi < Len(records)
  /\ 0 < parked.wi /\ parked.wi < Len(parked.records)
  /\ sink = Concat(SubSeq(GenerateRecords(s), 1, wi))
  /\ parked.sink = Concat(SubSeq(GenerateRecords(parked.s), 1, parked.wi))
  /\ sink # parked.sink
  /\ g.year = 2021

(***************************************************************************)
(* Totality.                                                               *)
(***************************************************************************)

\* The field names of a list of put calls, and of a table.
PutNames(ps) == {ps[k].fieldName : k \in 1 .. Len(ps)}
TableNames(table) == {table[k].Name : k \in 1 .. Len(table)}

\* Every name the builders put for submission sub is in the table they are
\* given, under the layout of year y.
NamesPresent(y, sub) ==
  LET l == [year |-> y, yspec |-> ForYear(y).spec]
  IN  /\ PutNames(rcaPuts(l, sub)) \subseteq TableNames(l.yspec.RCA)
      /\ PutNames(rcePuts(l, sub)) \subseteq TableNames(l.yspec.RCE)
      /\ \A k \in 1 .. Len(sub.Employees) :
           /\ PutNames(rcwPuts(l, sub.Employees[k])) \subseteq TableNames(l.yspec.RCW)
           /\ PutNames(rcoPuts(l, sub.Employees[k])) \subseteq TableNames(l.yspec.RCO)
           /\ PutNames(rcsPuts(l, sub.Employees[k])) \subseteq TableNames(l.yspec.RCS)
      /\ PutNames(rctPuts(l, TotalsOver(ZeroTotals, sub.Employees)))
           \subseteq TableNames(l.yspec.RCT)
      /\ PutNames(rcfPuts(l, Len(sub.Employees))) \subseteq TableNames(l.yspec.RCF)

\* C29: with a sink that accepts every write Generate terminates and
\* returns no error, whatever the submission: every field name its builders
\* put is in the table of every layout the year lookup can give (2021-2024
\* and the fallback), no put panics, and the length guard never fails.
C29_Total ==
  /\ <>(pc = "done" /\ err = "nil")
  /\ [](/\ pc \notin {"panicked", "failed"}
        /\ err = "nil"
        /\ pc = "loop" => i <= Len(s.Employees)
        /\ pc = "write" => wi <= Len(records)
        /\ \A k \in 1 .. Len(records) : Len(records[k]) = RecordLen
        /\ pc = "start" => \A y \in {0, 2021, 2022, 2023, 2024} : NamesPresent(y, s))

\* Generate returned nil for a submission whose tax year is no number and
\* whose employee has amounts beyond eleven digits.
C29_Witness ==
  /\ Succeeded
  /\ s.Employer = EmployerBadYear
  /\ s.Employees = <<EmpBig>>
  /\ NumSlices = 6

(***************************************************************************)
(* The whole stream under two supported tax years.                         *)
(***************************************************************************)

\* The supported years other than the one the completed run was made with;
\* none when the run's tax year is not a supported one.
OtherYears ==
  IF Succeeded /\ \E y \in DOMAIN specs : s.Employer.TaxYear = TY(y)
    THEN {y \in DOMAIN specs : s.Employer.TaxYear # TY(y)}
    ELSE {}

\* Record j of the stream agrees with record t of the twin stream
\* everywhere, or, for the RCE record, everywhere but bytes 4-7, which hold
\* the tax years.
SameButYear(j, t, y) ==
  IF j = 2
    THEN /\ Bytes(Slice(j), 1, 3) = RCE
         /\ Bytes(t, 1, 3) = RCE
         /\ Bytes(Slice(j), 4, 7) = s.Employer.TaxYear
         /\ Bytes(t, 4, 7) = TY(y)
         /\ Bytes(Slice(j), 8, RecordLen) = Bytes(t, 8, RecordLen)
    ELSE Slice(j) = t

\* C30: two submissions that differ only in Employer.TaxYear, both years
\* supported, give streams with the same number of records that are
\* byte-identical except for bytes 4-7 of the RCE record, the tax year.
C30_OnlyTaxYearDiffers ==
  \A y \in OtherYears :
    LET twin == Twin(y)
    IN  /\ Len(twin) = NumSlices
        /\ \A j \in 1 .. NumSlices : SameButYear(j, twin[j], y)

\* A TY 2021 run wrote an RCO and an RCS record, and its TY 2024 twin
\* differs from it in the RCE tax year.
C30_Witness ==
  /\ s.Employer.TaxYear = TY(2021)
  /\ OtherYears = {2022, 2023, 2024}
  /\ \E j \in 1 .. NumSlices : Ids[j] = RCO
  /\ \E j \in 1 .. NumSlices : Ids[j] = RCS
  /\ Slice(2) # Twin(2024)[2]

=============================================================================
